---- MODULE Spec2Model ----
(***************************************************************************)
(* JSON validator of json-parser/parser: the Tokenizer (lexical scanner)   *)
(* and the recursive-descent Parser behind ValidateJSON.                   *)
(*                                                                         *)
(* A Go string is a byte sequence: the model keeps the input as a sequence *)
(* of byte values 0..255 and the Tokenizer's position as a byte index      *)
(* (0-based, as in the source: the byte at position p is input[p + 1]).    *)
(* Every state variable is a function of the call, so that several         *)
(* ValidateJSON calls can be put side by side.                             *)
(***************************************************************************)
EXTENDS Integers, Sequences, FiniteSets, TLC

VARIABLES
    input,          \* Tokenizer.input
    position,       \* Tokenizer.position
    tk,             \* the running NextToken activation: its place and locals
    currentToken,   \* Parser.currentToken
    parserPosition, \* Parser.position (number of tokens loaded)
    depth,          \* Parser.depth
    stack,          \* the Parser's call stack, innermost activation last
    ret,            \* the error value returned by the activation that returned last
    result          \* what ValidateJSON returned, Pending until it has

vars == <<input, position, tk, currentToken, parserPosition, depth, stack, ret, result>>

(***************************************************************************)
(* Characters.  Ord is the byte value of a character, written as in the Go *)
(* source ('{', '\\', ...); the named entries are the unprintable bytes.   *)
(***************************************************************************)
Ord ==
    "NUL" :> 0 @@ "BS" :> 8 @@ "TAB" :> 9 @@ "LF" :> 10 @@ "VT" :> 11 @@ "FF" :> 12
    @@ "CR" :> 13 @@ "US" :> 31 @@ " " :> 32 @@ "\"" :> 34 @@ "#" :> 35 @@ "+" :> 43
    @@ "," :> 44 @@ "-" :> 45 @@ "." :> 46 @@ "/" :> 47
    @@ "0" :> 48 @@ "1" :> 49 @@ "2" :> 50 @@ "3" :> 51 @@ "4" :> 52 @@ "5" :> 53
    @@ "6" :> 54 @@ "7" :> 55 @@ "8" :> 56 @@ "9" :> 57 @@ ":" :> 58
    @@ "A" :> 65 @@ "D" :> 68 @@ "E" :> 69 @@ "F" :> 70 @@ "L" :> 76 @@ "N" :> 78 @@ "R" :> 82
    @@ "S" :> 83 @@ "T" :> 84 @@ "U" :> 85 @@ "[" :> 91 @@ "\\" :> 92 @@ "]" :> 93
    @@ "a" :> 97 @@ "b" :> 98 @@ "c" :> 99 @@ "d" :> 100 @@ "e" :> 101 @@ "f" :> 102
    @@ "h" :> 104 @@ "k" :> 107 @@ "l" :> 108 @@ "n" :> 110 @@ "o" :> 111 @@ "r" :> 114 @@ "s" :> 115
    @@ "t" :> 116 @@ "u" :> 117 @@ "x" :> 120 @@ "y" :> 121 @@ "{" :> 123 @@ "}" :> 125
    @@ "DEL" :> 127 @@ "NEL" :> 133 @@ "NBSP" :> 160 @@ "A_GRAVE" :> 192
    @@ "e_ACUTE" :> 233 @@ "xC3" :> 195 @@ "xA9" :> 169

\* The byte sequence of a text given as a tuple of characters.
B(s) == [i \in 1..Len(s) |-> Ord[s[i]]]

RECURSIVE Concat(_)
Concat(ss) == IF ss = <<>> THEN <<>> ELSE Head(ss) \o Concat(Tail(ss))

(***************************************************************************)
(* The Go library functions the Tokenizer calls, on the runes it passes:   *)
(* rune(t.input[i]) is a byte value, so only the Latin-1 range matters.    *)
(***************************************************************************)
\* unicode.IsSpace: '\t', '\n', '\v', '\f', '\r', ' ', U+0085 (NEL), U+00A0 (NBSP).
\* A scanner that knows the blank as its only whitespace.
IsSpaceBlankOnly(r) == r = 32

IsSpace(r) == r \in {9, 10, 11, 12, 13, 32, 133, 160}

\* unicode.IsDigit: below U+0100 only '0'..'9'.
IsDigit(r) == r \in 48..57

\* unicode.IsLetter: the Latin-1 letters.
IsLetter(r) ==
    r \in (65..90) \cup (97..122) \cup {170, 181, 186} \cup (192..214)
          \cup (216..246) \cup (248..255)

\* string(rune): the UTF-8 encoding of a code point; a surrogate becomes U+FFFD.
Utf8(r) ==
    IF r < 128 THEN <<r>>
    ELSE IF r < 2048 THEN <<192 + (r \div 64), 128 + (r % 64)>>
    ELSE IF r \in 55296..57343 THEN <<239, 191, 189>>
    ELSE <<224 + (r \div 4096), 128 + ((r \div 64) % 64), 128 + (r % 64)>>

(***************************************************************************)
(* Go strings that are built by formatting are kept as the format and its  *)
(* arguments: Str("%s", bytes) is a plain string.                          *)
(***************************************************************************)
Str(f, a) == [fmt |-> f, arg |-> a]

\* A token whose end-of-input position is reported as 0.
TokenEndAtZero(type, value, pos) ==
    [Type |-> type, Value |-> value, Position |-> IF type = "EOF" THEN 0 ELSE pos]

Token(type, value, pos) == [Type |-> type, Value |-> value, Position |-> pos]

\* fmt.Errorf("<message> at position %d", pos)
Errorf(message, pos) == [Message |-> message, Position |-> pos]

Nil == [nil |-> TRUE]

Pending == [pending |-> TRUE]

maxNestingDepth == 19

(***************************************************************************)
(* Tokenizer                                                               *)
(***************************************************************************)
Idle == [pc |-> "idle", firstChar |-> 0, acc |-> <<>>, tokenPos |-> 0]

\* t.input[i] for a 0-based i
ByteAt(c, i) == input[c][i + 1]

AtEnd(c, i) == i >= Len(input[c])

\* A NextChar that looks at the current byte and leaves the cursor on it.
NextCharPeeking(in, pos) ==
    IF pos >= Len(in)
    THEN [char |-> 0, position |-> pos]
    ELSE [char |-> in[pos + 1], position |-> pos]

\* A NextChar that steps on at the end of the input as well.
NextCharPastEnd(in, pos) ==
    IF pos >= Len(in)
    THEN [char |-> 0, position |-> pos + 1]
    ELSE [char |-> in[pos + 1], position |-> pos + 1]

\* NextChar: the current byte and the position after it; 0 at the end of input.
NextChar(in, pos) ==
    IF pos >= Len(in)
    THEN [char |-> 0, position |-> pos]
    ELSE [char |-> in[pos + 1], position |-> pos + 1]

\* A scanner that goes back to the start of a token it refuses.
TokenReturnRewinding(c, token, pos) ==
    /\ currentToken' = [currentToken EXCEPT ![c] = token]
    /\ parserPosition' = [parserPosition EXCEPT ![c] = @ + 1]
    /\ position' = [position EXCEPT ![c] = IF token.Type = "INVALID" THEN token.Position ELSE pos]
    /\ tk' = [tk EXCEPT ![c] = Idle]
    /\ UNCHANGED <<input, depth, stack, ret, result>>

\* A lookahead token kept in one package-level variable.
TokenReturnSharedLookahead(c, token, pos) ==
    /\ currentToken' = [d \in DOMAIN currentToken |-> token]
    /\ parserPosition' = [parserPosition EXCEPT ![c] = @ + 1]
    /\ position' = [position EXCEPT ![c] = pos]
    /\ tk' = [tk EXCEPT ![c] = Idle]
    /\ UNCHANGED <<input, depth, stack, ret, result>>

\* advance: p.currentToken = p.tokenizer.NextToken(); p.position++
\* (the part after NextToken has returned `token`, leaving the cursor at `pos`).
TokenReturn(c, token, pos) ==
    /\ currentToken' = [currentToken EXCEPT ![c] = token]
    /\ parserPosition' = [parserPosition EXCEPT ![c] = @ + 1]
    /\ position' = [position EXCEPT ![c] = pos]
    /\ tk' = [tk EXCEPT ![c] = Idle]
    /\ UNCHANGED <<input, depth, stack, ret, result>>

\* The Tokenizer goes on at `pc` with the cursor at `pos`.
TokenizerStep(c, pc, pos, acc, firstChar) ==
    /\ tk' = [tk EXCEPT ![c] = [pc |-> pc, firstChar |-> firstChar, acc |-> acc,
                                tokenPos |-> tk[c].tokenPos]]
    /\ position' = [position EXCEPT ![c] = pos]
    /\ UNCHANGED <<input, currentToken, parserPosition, depth, stack, ret, result>>

\* A whitespace loop that forgets t.position++.
skipWhitespaceInPlace(c) ==
    /\ tk[c].pc = "NextToken"
    /\ ~AtEnd(c, position[c])
    /\ IsSpace(ByteAt(c, position[c]))
    /\ TokenizerStep(c, "NextToken", position[c], <<>>, 0)

\* skipWhitespace: one iteration of its loop that skips a byte.
skipWhitespace(c) ==
    /\ tk[c].pc = "NextToken"
    /\ ~AtEnd(c, position[c])
    /\ IsSpace(ByteAt(c, position[c]))
    /\ TokenizerStep(c, "NextToken", position[c] + 1, <<>>, 0)

StructuralType(char) ==
    CASE char = Ord["{"] -> "LEFT_BRACE"
      [] char = Ord["}"] -> "RIGHT_BRACE"
      [] char = Ord["["] -> "LEFT_BRACKET"
      [] char = Ord["]"] -> "RIGHT_BRACKET"
      [] char = Ord[":"] -> "COLON"
      [] char = Ord[","] -> "COMMA"
      [] OTHER -> "NONE"

\* A dispatch that scans a word from any letter.
IsKeywordStartAnyLetter(char) == IsLetter(char)

IsKeywordStart(char) == char \in {Ord["t"], Ord["f"], Ord["n"]}

IsNumberStart(char) == char = Ord["-"] \/ char \in Ord["0"]..Ord["9"]

\* NextToken once skipWhitespace has returned: the token's position, NextChar,
\* and the switch on the character.
NextToken(c) ==
    /\ tk[c].pc = "NextToken"
    /\ ~(~AtEnd(c, position[c]) /\ IsSpace(ByteAt(c, position[c])))
    /\ LET tokenPos == position[c]
           nc == NextChar(input[c], position[c])
           char == nc.char
           start(pc, acc, first) ==
               /\ tk' = [tk EXCEPT ![c] = [pc |-> pc, firstChar |-> first,
                                           acc |-> acc, tokenPos |-> tokenPos]]
               /\ position' = [position EXCEPT ![c] = nc.position]
               /\ UNCHANGED <<input, currentToken, parserPosition, depth, stack,
                              ret, result>>
       IN  IF char = 0
           THEN TokenReturn(c, Token("EOF", Str("%s", <<>>), tokenPos), nc.position)
           ELSE IF StructuralType(char) # "NONE"
           THEN TokenReturn(c, Token(StructuralType(char), Str("%s", <<char>>), tokenPos),
                            nc.position)
           ELSE IF char = Ord["\""] THEN start("parseStringToken", <<>>, 0)
           ELSE IF IsKeywordStart(char)
           THEN start("parseKeywordToken", Utf8(char), char)
           ELSE IF IsNumberStart(char)
           THEN start("parseNumberToken", Utf8(char), char)
           ELSE TokenReturn(c, Token("INVALID", Str("%s", Utf8(char)), tokenPos),
                            nc.position)

\* An escape table that takes \r for a newline.
EscapeCharSwapped(nextChar) ==
    CASE nextChar = Ord["\""] -> Ord["\""]
      [] nextChar = Ord["\\"] -> Ord["\\"]
      [] nextChar = Ord["/"] -> Ord["/"]
      [] nextChar = Ord["b"] -> 8
      [] nextChar = Ord["f"] -> 12
      [] nextChar = Ord["n"] -> 10
      [] nextChar = Ord["r"] -> 10
      [] nextChar = Ord["t"] -> 9
      [] OTHER -> -1

\* An escape table that lets any other escaped character stand for itself.
EscapeCharLenient(nextChar) ==
    CASE nextChar = Ord["b"] -> 8
      [] nextChar = Ord["f"] -> 12
      [] nextChar = Ord["n"] -> 10
      [] nextChar = Ord["r"] -> 13
      [] nextChar = Ord["t"] -> 9
      [] OTHER -> nextChar

\* The character an escape letter stands for (lines 476-491), -1 for any other.
EscapeChar(nextChar) ==
    CASE nextChar = Ord["\""] -> Ord["\""]
      [] nextChar = Ord["\\"] -> Ord["\\"]
      [] nextChar = Ord["/"] -> Ord["/"]
      [] nextChar = Ord["b"] -> 8
      [] nextChar = Ord["f"] -> 12
      [] nextChar = Ord["n"] -> 10
      [] nextChar = Ord["r"] -> 13
      [] nextChar = Ord["t"] -> 9
      [] OTHER -> -1

\* The value of a hexadecimal digit, -1 for any other character.  The source
\* ranges over the runes of the four bytes: a byte of 0x80 or more decodes to
\* a rune that is no hexadecimal digit.
HexVal(digit) ==
    IF digit \in Ord["0"]..Ord["9"] THEN digit - Ord["0"]
    ELSE IF digit \in Ord["a"]..Ord["f"] THEN digit - Ord["a"] + 10
    ELSE IF digit \in Ord["A"]..Ord["F"] THEN digit - Ord["A"] + 10
    ELSE -1

\* codePoint = codePoint*16 + val over the four digits, -1 if one is invalid.
CodePoint(hexDigits) ==
    IF \E i \in 1..4 : HexVal(hexDigits[i]) = -1
    THEN -1
    ELSE ((HexVal(hexDigits[1]) * 16 + HexVal(hexDigits[2])) * 16
            + HexVal(hexDigits[3])) * 16 + HexVal(hexDigits[4])

\* A scanner without the control character check.
IsControlNever(char) == FALSE

\* char < 0x20
IsControl(char) == char < 32

\* The \u branch: the cursor is on the 'u', at 0-based index u.
UnicodeEscape(c, u) ==
    LET pos == u + 1
        hexDigits == SubSeq(input[c], pos + 1, pos + 4)
    IN  IF pos + 3 >= Len(input[c])
        THEN TokenReturn(c, Token("INVALID",
                 Str("incomplete unicode escape sequence", <<>>), tk[c].tokenPos), pos)
        ELSE IF CodePoint(hexDigits) = -1
        THEN TokenReturn(c, Token("INVALID",
                 Str("invalid hex digit in unicode escape", <<>>), tk[c].tokenPos), pos)
        ELSE TokenizerStep(c, "parseStringToken", pos + 4,
                 tk[c].acc \o Utf8(CodePoint(hexDigits)), 0)

\* An unterminated string reported at the character after the opening quote.
UnterminatedStringInside(startPos) ==
    Token("INVALID", Str("unterminated string", <<>>), startPos + 1)

\* Token{Type: INVALID, Value: "unterminated string", Position: startPos}
UnterminatedString(startPos) ==
    Token("INVALID", Str("unterminated string", <<>>), startPos)

\* parseStringToken: one iteration of its loop, or its end.
parseStringToken(c) ==
    /\ tk[c].pc = "parseStringToken"
    /\ LET pos == position[c]
           startPos == tk[c].tokenPos
           res == tk[c].acc
       IN  IF AtEnd(c, pos)
           THEN TokenReturn(c, UnterminatedString(startPos), pos)
           ELSE LET char == ByteAt(c, pos)
                IN  IF char = Ord["\""]
                    THEN TokenReturn(c, Token("STRING", Str("%s", res), startPos), pos + 1)
                    ELSE IF char = Ord["\\"]
                    THEN IF AtEnd(c, pos + 1)
                         THEN TokenReturn(c, UnterminatedString(startPos), pos + 1)
                         ELSE LET nextChar == ByteAt(c, pos + 1)
                              IN  IF EscapeChar(nextChar) # -1
                                  THEN TokenizerStep(c, "parseStringToken", pos + 2,
                                           res \o <<EscapeChar(nextChar)>>, 0)
                                  ELSE IF nextChar = Ord["u"]
                                  THEN UnicodeEscape(c, pos + 1)
                                  ELSE TokenReturn(c, Token("INVALID",
                                           Str("invalid escape sequence '\\%c'",
                                               Utf8(nextChar)), startPos), pos + 1)
                    ELSE IF IsControl(char)
                    THEN TokenReturn(c, Token("INVALID",
                             Str("unescaped control character (0x%02X) in string",
                                 <<char>>), startPos), pos)
                    ELSE TokenizerStep(c, "parseStringToken", pos + 1,
                             res \o Utf8(char), 0)

\* The byte with an upper-case ASCII letter folded to lower case.
ToLower(b) == IF b \in 65..90 THEN b + 32 ELSE b

\* A switch that ignores case.
KeywordTypeFolded(keyword) ==
    LET folded == [i \in 1..Len(keyword) |-> ToLower(keyword[i])]
    IN  CASE folded = B(<<"t", "r", "u", "e">>) -> "TRUE"
          [] folded = B(<<"f", "a", "l", "s", "e">>) -> "FALSE"
          [] folded = B(<<"n", "u", "l", "l">>) -> "NULL"
          [] OTHER -> "INVALID"

\* The switch on the accumulated keyword (case-sensitive).
KeywordType(keyword) ==
    CASE keyword = B(<<"t", "r", "u", "e">>) -> "TRUE"
      [] keyword = B(<<"f", "a", "l", "s", "e">>) -> "FALSE"
      [] keyword = B(<<"n", "u", "l", "l">>) -> "NULL"
      [] OTHER -> "INVALID"

\* parseKeywordToken: one iteration of its loop, or the match at its end.
parseKeywordToken(c) ==
    /\ tk[c].pc = "parseKeywordToken"
    /\ LET pos == position[c]
           keyword == tk[c].acc
       IN  IF ~AtEnd(c, pos) /\ IsLetter(ByteAt(c, pos))
           THEN TokenizerStep(c, "parseKeywordToken", pos + 1,
                    keyword \o Utf8(ByteAt(c, pos)), tk[c].firstChar)
           ELSE TokenReturn(c, Token(KeywordType(keyword), Str("%s", keyword),
                                     tk[c].tokenPos), pos)

\* A parseNumberToken that keeps the minus sign as first character, so that
\* the digits behind it are read without the leading-zero test.
parseNumberTokenSignBlind(c) ==
    /\ tk[c].pc = "parseNumberToken"
    /\ LET pos == position[c]
           startPos == tk[c].tokenPos
           number == tk[c].acc
           invalid(msg, p) == TokenReturn(c, Token("INVALID", Str(msg, <<>>), startPos), p)
           integer(first, num, p) ==
               IF first = Ord["0"]
               THEN IF ~AtEnd(c, p) /\ IsDigit(ByteAt(c, p))
                    THEN invalid("numbers cannot have leading zeros", p)
                    ELSE TokenizerStep(c, "numberFraction", p, num, first)
               ELSE TokenizerStep(c, "numberInteger", p, num, first)
       IN  IF tk[c].firstChar = Ord["-"]
           THEN IF AtEnd(c, pos)
                THEN invalid("incomplete number after '-'", pos)
                ELSE IF ~IsDigit(ByteAt(c, pos))
                THEN invalid("expected digit after '-'", pos)
                ELSE integer(tk[c].firstChar, number \o Utf8(ByteAt(c, pos)), pos + 1)
           ELSE integer(tk[c].firstChar, number, pos)

\* parseNumberToken up to the integer digits: the minus sign and the leading zero.
parseNumberToken(c) ==
    /\ tk[c].pc = "parseNumberToken"
    /\ LET pos == position[c]
           startPos == tk[c].tokenPos
           number == tk[c].acc
           invalid(msg, p) == TokenReturn(c, Token("INVALID", Str(msg, <<>>), startPos), p)
           \* lines 589-611, with the sign already read
           integer(first, num, p) ==
               IF first = Ord["0"]
               THEN IF ~AtEnd(c, p) /\ IsDigit(ByteAt(c, p))
                    THEN invalid("numbers cannot have leading zeros", p)
                    ELSE TokenizerStep(c, "numberFraction", p, num, first)
               ELSE TokenizerStep(c, "numberInteger", p, num, first)
       IN  IF tk[c].firstChar = Ord["-"]
           THEN IF AtEnd(c, pos)
                THEN invalid("incomplete number after '-'", pos)
                ELSE IF ~IsDigit(ByteAt(c, pos))
                THEN invalid("expected digit after '-'", pos)
                ELSE integer(ByteAt(c, pos), number \o Utf8(ByteAt(c, pos)), pos + 1)
           ELSE integer(tk[c].firstChar, number, pos)

\* A digit loop that swallows the character that ends it.
DigitLoopSwallowing(c, here, next) ==
    LET pos == position[c]
    IN  IF ~AtEnd(c, pos) /\ IsDigit(ByteAt(c, pos))
        THEN TokenizerStep(c, here, pos + 1, tk[c].acc \o Utf8(ByteAt(c, pos)),
                           tk[c].firstChar)
        ELSE TokenizerStep(c, next, IF AtEnd(c, pos) THEN pos ELSE pos + 1, tk[c].acc,
                           tk[c].firstChar)

\* One iteration of a digit loop of parseNumberToken, or its exit to `next`.
DigitLoop(c, here, next) ==
    LET pos == position[c]
    IN  IF ~AtEnd(c, pos) /\ IsDigit(ByteAt(c, pos))
        THEN TokenizerStep(c, here, pos + 1, tk[c].acc \o Utf8(ByteAt(c, pos)),
                           tk[c].firstChar)
        ELSE TokenizerStep(c, next, pos, tk[c].acc, tk[c].firstChar)

\* The loop over the digits of the integer part (lines 601-610).
numberInteger(c) ==
    /\ tk[c].pc = "numberInteger"
    /\ DigitLoop(c, "numberInteger", "numberFraction")

\* The decimal point and the digit it needs (lines 613-621).
numberFraction(c) ==
    /\ tk[c].pc = "numberFraction"
    /\ LET pos == position[c]
       IN  IF ~AtEnd(c, pos) /\ ByteAt(c, pos) = Ord["."]
           THEN IF AtEnd(c, pos + 1) \/ ~IsDigit(ByteAt(c, pos + 1))
                THEN TokenReturn(c, Token("INVALID",
                         Str("expected digit after decimal point", <<>>),
                         tk[c].tokenPos), pos + 1)
                ELSE TokenizerStep(c, "numberFractionDigits", pos + 1,
                         tk[c].acc \o <<Ord["."]>>, tk[c].firstChar)
           ELSE TokenizerStep(c, "numberExponent", pos, tk[c].acc, tk[c].firstChar)

\* The loop over the fractional digits (lines 623-632).
numberFractionDigits(c) ==
    /\ tk[c].pc = "numberFractionDigits"
    /\ DigitLoop(c, "numberFractionDigits", "numberExponent")

\* An exponent marker in lower case only.
IsExponentMarkerLower(char) == char = Ord["e"]

IsExponentMarker(char) == char = Ord["e"] \/ char = Ord["E"]

IsSign(char) == char = Ord["+"] \/ char = Ord["-"]

\* The exponent marker, its optional sign and the digit it needs (lines 635-654);
\* without a marker the number ends here (line 669).
numberExponent(c) ==
    /\ tk[c].pc = "numberExponent"
    /\ LET pos == position[c]
           number == tk[c].acc
       IN  IF ~AtEnd(c, pos) /\ IsExponentMarker(ByteAt(c, pos))
           THEN LET signed == ~AtEnd(c, pos + 1) /\ IsSign(ByteAt(c, pos + 1))
                    p == IF signed THEN pos + 2 ELSE pos + 1
                    num == number \o <<ByteAt(c, pos)>>
                             \o (IF signed THEN <<ByteAt(c, pos + 1)>> ELSE <<>>)
                IN  IF AtEnd(c, p) \/ ~IsDigit(ByteAt(c, p))
                    THEN TokenReturn(c, Token("INVALID",
                             Str("expected digit in exponent", <<>>), tk[c].tokenPos), p)
                    ELSE TokenizerStep(c, "numberExponentDigits", p, num, tk[c].firstChar)
           ELSE TokenReturn(c, Token("NUMBER", Str("%s", number), tk[c].tokenPos), pos)

\* The loop over the exponent digits (lines 656-665), then the NUMBER token.
numberExponentDigits(c) ==
    /\ tk[c].pc = "numberExponentDigits"
    /\ LET pos == position[c]
       IN  IF ~AtEnd(c, pos) /\ IsDigit(ByteAt(c, pos))
           THEN TokenizerStep(c, "numberExponentDigits", pos + 1,
                    tk[c].acc \o Utf8(ByteAt(c, pos)), tk[c].firstChar)
           ELSE TokenReturn(c, Token("NUMBER", Str("%s", tk[c].acc), tk[c].tokenPos), pos)

(***************************************************************************)
(* Parser.  An activation is a frame of the call stack: the function, the  *)
(* place it goes on from, and whether its `defer func() { p.depth-- }()`   *)
(* has been registered.                                                    *)
(***************************************************************************)
Frame(fn, pc, deferred) == [fn |-> fn, pc |-> pc, deferred |-> deferred]

Top(c) == stack[c][Len(stack[c])]

\* The Parser of call c is at `pc` of `fn`, the Tokenizer not running.
At(c, fn, pc) ==
    /\ result[c] = Pending
    /\ tk[c].pc = "idle"
    /\ stack[c] # <<>>
    /\ Top(c).fn = fn
    /\ Top(c).pc = pc

SetTop(c, pc, deferred) ==
    [stack[c] EXCEPT ![Len(stack[c])] = Frame(Top(c).fn, pc, deferred)]

\* A Parser whose depth counter is one package-level variable.
ParserStepSharedDepth(c, newStack, newDepth, newRet, advance) ==
    /\ stack' = [stack EXCEPT ![c] = newStack]
    /\ depth' = [d \in DOMAIN depth |-> newDepth]
    /\ ret' = [ret EXCEPT ![c] = newRet]
    /\ tk' = [tk EXCEPT ![c] = IF advance THEN [Idle EXCEPT !.pc = "NextToken"] ELSE Idle]
    /\ result' = [result EXCEPT ![c] = IF newStack = <<>> THEN newRet ELSE Pending]
    /\ UNCHANGED <<input, position, currentToken, parserPosition>>

ParserStep(c, newStack, newDepth, newRet, advance) ==
    /\ stack' = [stack EXCEPT ![c] = newStack]
    /\ depth' = [depth EXCEPT ![c] = newDepth]
    /\ ret' = [ret EXCEPT ![c] = newRet]
    /\ tk' = [tk EXCEPT ![c] = IF advance THEN [Idle EXCEPT !.pc = "NextToken"] ELSE Idle]
    /\ result' = [result EXCEPT ![c] = IF newStack = <<>> THEN newRet ELSE Pending]
    /\ UNCHANGED <<input, position, currentToken, parserPosition>>

\* p.advance(), going on at `pc` once the token is loaded.
Advance(c, pc) == ParserStep(c, SetTop(c, pc, Top(c).deferred), depth[c], ret[c], TRUE)

\* A call of `fn`, going on at `pc` once it has returned.
Call(c, fn, pc) ==
    ParserStep(c, Append(SetTop(c, pc, Top(c).deferred), Frame(fn, "start", FALSE)),
               depth[c], ret[c], FALSE)

\* return err, from an activation that found the depth at d: its deferred
\* decrement, if registered, runs.
ReturnAt(c, err, d) ==
    ParserStep(c, SubSeq(stack[c], 1, Len(stack[c]) - 1),
               IF Top(c).deferred THEN d - 1 ELSE d, err, FALSE)

Return(c, err) == ReturnAt(c, err, depth[c])

\* An error positioned at the scanner's cursor, which is past the lookahead.
ErrorAtCursor(c, message) == Errorf(Str(message, <<>>), position[c])

\* fmt.Errorf("<message> at position %d", p.currentToken.Position)
Error(c, message) == Errorf(Str(message, <<>>), currentToken[c].Position)

\* NewParser: the Tokenizer at 0, the first token loaded; ValidateJSON then
\* returns what ParseJSON returns.
NewParser(c) ==
    /\ At(c, "NewParser", "start")
    /\ ParserStep(c, <<Frame("ParseJSON", "start", FALSE)>>, depth[c], ret[c], TRUE)

\* A top level that takes any value.
IsTopLevelStartAny(type) == TRUE

\* if p.currentToken.Type != LEFT_BRACE && p.currentToken.Type != LEFT_BRACKET
IsTopLevelStart(type) == type = "LEFT_BRACE" \/ type = "LEFT_BRACKET"

ParseJSON(c) ==
    /\ At(c, "ParseJSON", "start")
    /\ IF ~IsTopLevelStart(currentToken[c].Type)
       THEN Return(c, Error(c, "JSON must be an object or array"))
       ELSE Call(c, "parseValue", "afterValue")

\* An end test that lets an ill-formed token pass for the end of the input.
IsEndOrInvalid(type) == type \in {"EOF", "INVALID"}

\* if p.currentToken.Type != EOF
IsEnd(type) == type = "EOF"

ParseJSONAfterValue(c) ==
    /\ At(c, "ParseJSON", "afterValue")
    /\ IF ret[c] # Nil
       THEN Return(c, ret[c])
       ELSE IF ~IsEnd(currentToken[c].Type)
       THEN Return(c, Error(c, "unexpected token after JSON"))
       ELSE Return(c, Nil)

\* A limit that is reached one level early.
DepthExceededEarly(d) == d >= maxNestingDepth

\* p.depth > maxNestingDepth
DepthExceeded(d) == d > maxNestingDepth

\* parseObject and parseArray up to the first advance: the opening delimiter,
\* the depth check, the defer.
ContainerStart(c, open, expected) ==
    IF currentToken[c].Type # open
    THEN Return(c, Error(c, expected))
    ELSE IF DepthExceeded(depth[c] + 1)
    THEN ReturnAt(c, Errorf(Str("maximum nesting depth of %d exceeded",
                                <<maxNestingDepth>>), currentToken[c].Position),
                  depth[c] + 1)
    ELSE ParserStep(c, SetTop(c, "afterOpen", TRUE), depth[c] + 1, ret[c], TRUE)

\* A construct that either closing delimiter closes.
ContainerAfterOpenAnyClose(c, close, member) ==
    IF currentToken[c].Type \in {"RIGHT_BRACE", "RIGHT_BRACKET"}
    THEN Advance(c, "returnNil")
    ELSE Call(c, member, "afterMember")

\* The empty construct, or the first member.
ContainerAfterOpen(c, close, member) ==
    IF currentToken[c].Type = close
    THEN Advance(c, "returnNil")
    ELSE Call(c, member, "afterMember")

\* A rule that goes on after the error of a member.
ContainerAfterMemberResuming(c, close, expected) ==
    IF currentToken[c].Type = "COMMA"
    THEN Advance(c, "afterComma")
    ELSE IF currentToken[c].Type # close
    THEN Return(c, Error(c, expected))
    ELSE Advance(c, "returnNil")

\* After a member: its error, the comma loop, the closing delimiter.
ContainerAfterMember(c, close, expected) ==
    IF ret[c] # Nil
    THEN Return(c, ret[c])
    ELSE IF currentToken[c].Type = "COMMA"
    THEN Advance(c, "afterComma")
    ELSE IF currentToken[c].Type # close
    THEN Return(c, Error(c, expected))
    ELSE Advance(c, "returnNil")

\* A comma loop that lets a comma close the construct.
ContainerAfterCommaClosing(c, close, member) ==
    IF currentToken[c].Type = close
    THEN Advance(c, "returnNil")
    ELSE Call(c, member, "afterMember")

\* In the comma loop: the trailing comma, or the next member.
ContainerAfterComma(c, close, member) ==
    IF currentToken[c].Type = close
    THEN Return(c, Error(c, "trailing comma is not allowed"))
    ELSE Call(c, member, "afterMember")

parseObject(c) ==
    /\ At(c, "parseObject", "start")
    /\ ContainerStart(c, "LEFT_BRACE", "expected '{'")

parseObjectAfterOpen(c) ==
    /\ At(c, "parseObject", "afterOpen")
    /\ ContainerAfterOpen(c, "RIGHT_BRACE", "parseKeyValuePair")

parseObjectAfterPair(c) ==
    /\ At(c, "parseObject", "afterMember")
    /\ ContainerAfterMember(c, "RIGHT_BRACE", "expected '}'")

parseObjectAfterComma(c) ==
    /\ At(c, "parseObject", "afterComma")
    /\ ContainerAfterComma(c, "RIGHT_BRACE", "parseKeyValuePair")

\* return nil, after the advance over '}'
parseObjectReturn(c) ==
    /\ At(c, "parseObject", "returnNil")
    /\ Return(c, Nil)

parseArray(c) ==
    /\ At(c, "parseArray", "start")
    /\ ContainerStart(c, "LEFT_BRACKET", "expected '['")

parseArrayAfterOpen(c) ==
    /\ At(c, "parseArray", "afterOpen")
    /\ ContainerAfterOpen(c, "RIGHT_BRACKET", "parseValue")

parseArrayAfterValue(c) ==
    /\ At(c, "parseArray", "afterMember")
    /\ ContainerAfterMember(c, "RIGHT_BRACKET", "expected ']'")

parseArrayAfterComma(c) ==
    /\ At(c, "parseArray", "afterComma")
    /\ ContainerAfterComma(c, "RIGHT_BRACKET", "parseValue")

\* return nil, after the advance over ']'
parseArrayReturn(c) ==
    /\ At(c, "parseArray", "returnNil")
    /\ Return(c, Nil)

\* A member rule that takes any scalar for a key.
parseKeyValuePairAnyKey(c) ==
    /\ At(c, "parseKeyValuePair", "start")
    /\ IF currentToken[c].Type \notin {"STRING", "NUMBER", "TRUE", "FALSE", "NULL"}
       THEN Return(c, Error(c, "expected string key"))
       ELSE Advance(c, "afterKey")

parseKeyValuePair(c) ==
    /\ At(c, "parseKeyValuePair", "start")
    /\ IF currentToken[c].Type # "STRING"
       THEN Return(c, Error(c, "expected string key"))
       ELSE Advance(c, "afterKey")

parseKeyValuePairAfterKey(c) ==
    /\ At(c, "parseKeyValuePair", "afterKey")
    /\ IF currentToken[c].Type # "COLON"
       THEN Return(c, Error(c, "expected ':' after key"))
       ELSE Advance(c, "afterColon")

\* return p.parseValue()
parseKeyValuePairValue(c) ==
    /\ At(c, "parseKeyValuePair", "afterColon")
    /\ Call(c, "parseValue", "tail")

parseKeyValuePairReturn(c) ==
    /\ At(c, "parseKeyValuePair", "tail")
    /\ Return(c, ret[c])

\* case STRING, TRUE, FALSE, NULL, NUMBER
\* A value rule that takes a colon for a scalar.
IsScalarOrColon(type) == type \in {"STRING", "TRUE", "FALSE", "NULL", "NUMBER", "COLON"}

IsScalar(type) == type \in {"STRING", "TRUE", "FALSE", "NULL", "NUMBER"}

parseValue(c) ==
    /\ At(c, "parseValue", "start")
    /\ LET type == currentToken[c].Type
       IN  IF IsScalar(type) THEN Advance(c, "returnNil")
           ELSE IF type = "LEFT_BRACE" THEN Call(c, "parseObject", "tail")
           ELSE IF type = "LEFT_BRACKET" THEN Call(c, "parseArray", "tail")
           ELSE IF type = "INVALID"
           THEN Return(c, Errorf(currentToken[c].Value, currentToken[c].Position))
           ELSE Return(c, Error(c, "expected value"))

\* return nil, after the advance over a scalar
parseValueReturnNil(c) ==
    /\ At(c, "parseValue", "returnNil")
    /\ Return(c, Nil)

\* return p.parseObject() / return p.parseArray()
parseValueReturn(c) ==
    /\ At(c, "parseValue", "tail")
    /\ Return(c, ret[c])

(***************************************************************************)
(* ValidateJSON calls                                                      *)
(***************************************************************************)
\* The zero Token of a Parser before its first advance: LEFT_BRACE is iota 0.
ZeroToken == Token("LEFT_BRACE", Str("%s", <<>>), 0)

\* The calls `ins` (a function from calls to input buffers), each at its entry.
InitCalls(ins) ==
    /\ input = ins
    /\ position = [c \in DOMAIN ins |-> 0]
    /\ tk = [c \in DOMAIN ins |-> Idle]
    /\ currentToken = [c \in DOMAIN ins |-> ZeroToken]
    /\ parserPosition = [c \in DOMAIN ins |-> 0]
    /\ depth = [c \in DOMAIN ins |-> 0]
    /\ stack = [c \in DOMAIN ins |-> <<Frame("NewParser", "start", FALSE)>>]
    /\ ret = [c \in DOMAIN ins |-> Nil]
    /\ result = [c \in DOMAIN ins |-> Pending]

Step(c) ==
    \/ NewParser(c)
    \/ ParseJSON(c)
    \/ ParseJSONAfterValue(c)
    \/ parseObject(c)
    \/ parseObjectAfterOpen(c)
    \/ parseObjectAfterPair(c)
    \/ parseObjectAfterComma(c)
    \/ parseObjectReturn(c)
    \/ parseKeyValuePair(c)
    \/ parseKeyValuePairAfterKey(c)
    \/ parseKeyValuePairValue(c)
    \/ parseKeyValuePairReturn(c)
    \/ parseValue(c)
    \/ parseValueReturnNil(c)
    \/ parseValueReturn(c)
    \/ parseArray(c)
    \/ parseArrayAfterOpen(c)
    \/ parseArrayAfterValue(c)
    \/ parseArrayAfterComma(c)
    \/ parseArrayReturn(c)
    \/ skipWhitespace(c)
    \/ NextToken(c)
    \/ parseStringToken(c)
    \/ parseKeywordToken(c)
    \/ parseNumberToken(c)
    \/ numberInteger(c)
    \/ numberFraction(c)
    \/ numberFractionDigits(c)
    \/ numberExponent(c)
    \/ numberExponentDigits(c)

Next == Step(1)

(***************************************************************************)
(* A client of the Tokenizer alone: NewTokenizer(input), then NextToken    *)
(* again and again, whatever the tokens are.  Its frame is "Scan";         *)
(* currentToken is the token it got last and parserPosition the number of  *)
(* tokens it has got.                                                      *)
(***************************************************************************)
MaxScanCalls == 5

\* token := tokenizer.NextToken()
ScanNextToken(c) ==
    /\ At(c, "Scan", "loop")
    /\ parserPosition[c] < MaxScanCalls
    /\ tk' = [tk EXCEPT ![c] = [Idle EXCEPT !.pc = "NextToken"]]
    /\ UNCHANGED <<input, position, currentToken, parserPosition, depth, stack, ret,
                   result>>

\* The scanning client at its first call.
InitScans(ins) ==
    /\ input = ins
    /\ position = [c \in DOMAIN ins |-> 0]
    /\ tk = [c \in DOMAIN ins |-> Idle]
    /\ currentToken = [c \in DOMAIN ins |-> ZeroToken]
    /\ parserPosition = [c \in DOMAIN ins |-> 0]
    /\ depth = [c \in DOMAIN ins |-> 0]
    /\ stack = [c \in DOMAIN ins |-> <<Frame("Scan", "loop", FALSE)>>]
    /\ ret = [c \in DOMAIN ins |-> Nil]
    /\ result = [c \in DOMAIN ins |-> Pending]

ScanStep(c) ==
    \/ ScanNextToken(c)
    \/ skipWhitespace(c)
    \/ NextToken(c)
    \/ parseStringToken(c)
    \/ parseKeywordToken(c)
    \/ parseNumberToken(c)
    \/ numberInteger(c)
    \/ numberFraction(c)
    \/ numberFractionDigits(c)
    \/ numberExponent(c)
    \/ numberExponentDigits(c)

ScanNext == ScanStep(1)

\* Two scanners, each on its own buffer, their steps interleaved in any order.
ScanPairNext ==
    \/ ScanStep(1)
    \/ ScanStep(2)

(***************************************************************************)
(* Several ValidateJSON calls.  Each call constructs its own Tokenizer and *)
(* Parser (NewParser); the package has no variable.                        *)
(***************************************************************************)
\* Call 1, and call 2 once call 1 has returned.
SequentialNext ==
    \/ Step(1)
    \/ result[1] # Pending /\ Step(2)

\* Call 3 alone; once it has returned, calls 1 and 2 with their steps
\* interleaved in any order.
ConcurrentNext ==
    \/ result[3] = Pending /\ Step(3)
    \/ result[3] # Pending /\ Step(1)
    \/ result[3] # Pending /\ Step(2)

\* Calls 1 and 2 taken in turn, token by token: call 1 goes up to its next
\* token, then call 2 goes up to its own; a call that has returned leaves the
\* turn to the other.
TurnNext ==
    \/ /\ result[1] = Pending
       /\ parserPosition[1] <= parserPosition[2] \/ result[2] # Pending
       /\ Step(1)
    \/ /\ result[2] = Pending
       /\ parserPosition[2] < parserPosition[1] \/ result[1] # Pending
       /\ Step(2)

(***************************************************************************)
(* Input buffers.  The calls are started on the buffers of these families. *)
(***************************************************************************)
RECURSIVE SeqsUpTo(_, _)
\* The sequences over S of length at most n.
SeqsUpTo(S, n) ==
    IF n = 0 THEN {<<>>}
    ELSE LET shorter == SeqsUpTo(S, n - 1)
         IN  shorter \cup {Append(s, x) : s \in shorter, x \in S}

\* Buffers that touch every rule of the grammar and every scanner branch.
CoreInputs ==
    { B(<<"{", "\"", "a", "\"", ":", " ", "[", "-", "1", "0", ".", "5", "e", "+", "1",
          ",", "t", "r", "u", "e", ",", " ", "\"", "x", "\\", "n", "\"", "]", ",",
          "\"", "b", "\"", ":", "{", "}", ",", "\"", "c", "\"", ":", "[", "]",
          "}", "LF">>),
      B(<<"{", "\"", "k", "e", "y", "2", "\"", ":", " ", "F", "a", "l", "s", "e", "}">>),
      B(<<"{", "\"", "a", "\"", ":", "1", ",", "}">>),
      B(<<"[", "1", ",", "2", ",", "]">>),
      B(<<"0", "1", "3">>),
      B(<<>>),
      B(<<" ", " ">>) }

MaxTrail == 2

TrailBytes ==
    {Ord[x] : x \in {"NUL", " ", "LF", "FF", "NEL", "NBSP", "]", "{", "x", "\""}}

TopValues ==
    { B(<<"[", "]">>), B(<<"{", "}">>), B(<<"[", "1", "]">>) }

\* A complete top-level value followed by arbitrary bytes.
TrailInputs == {top \o s : top \in TopValues, s \in SeqsUpTo(TrailBytes, MaxTrail)}

\* The kinds of the nested constructs, outermost first: all arrays, all objects,
\* or alternating.
Patterns == {"arrays", "objects", "mixed"}

IsObjectAt(pat, i) == pat = "objects" \/ (pat = "mixed" /\ i % 2 = 0)

OpenDelimiter(pat, i) == IF IsObjectAt(pat, i) THEN B(<<"{">>) ELSE B(<<"[">>)

\* The text up to the place of the value inside the construct at level i.
OpenText(pat, i) ==
    IF IsObjectAt(pat, i) THEN B(<<"{", "\"", "a", "\"", ":">>) ELSE B(<<"[">>)

CloseText(pat, i) == IF IsObjectAt(pat, i) THEN B(<<"}">>) ELSE B(<<"]">>)

RECURSIVE Nested(_, _, _)
\* A well-formed construct at level i that nests down to level k, where an
\* empty object or array lies.
Nested(pat, i, k) ==
    IF i >= k
    THEN OpenDelimiter(pat, i) \o CloseText(pat, i)
    ELSE OpenText(pat, i) \o Nested(pat, i + 1, k) \o CloseText(pat, i)

\* An array of two constructs that each nest down to level k.
Wide(pat, k) ==
    B(<<"[">>) \o Nested(pat, 2, k) \o B(<<",">>) \o Nested(pat, 2, k) \o B(<<"]">>)

RECURSIVE OpenPrefix(_, _)
\* The text up to and including the opening delimiter of level n.
OpenPrefix(pat, n) ==
    IF n = 1 THEN OpenDelimiter(pat, 1)
    ELSE LET before == OpenPrefix(pat, n - 1)
         IN  SubSeq(before, 1, Len(before) - 1) \o OpenText(pat, n - 1)
                 \o OpenDelimiter(pat, n)

WellNested(k) == {Nested(pat, 1, k) : pat \in Patterns} \cup {Wide(pat, k) : pat \in Patterns}

\* Well-formed inputs of every depth up to two past the limit.
NestedInputs == UNION {WellNested(k) : k \in 1..(maxNestingDepth + 2)}

OverflowTails ==
    { B(<<>>), B(<<"]">>), B(<<"}">>), B(<<"1">>), B(<<"x">>), B(<<"\"">>),
      B(<<"NUL">>), B(<<"[", "[">>), B(<<"\"", "a", "\"", ":", "1", "}">>) }

\* The opening delimiter of level maxNestingDepth + 1, followed by anything.
OverflowInputs ==
    {OpenPrefix(pat, maxNestingDepth + 1) \o t : pat \in Patterns, t \in OverflowTails}

MaxTokens == 3

TokenTexts ==
    { B(<<"{">>), B(<<"}">>), B(<<"[">>), B(<<"]">>), B(<<":">>), B(<<",">>),
      B(<<"\"", "a", "\"">>), B(<<"1">>), B(<<"t", "r", "u", "e">>), B(<<"#">>) }

\* Sequences of tokens, a space after each.
TokenInputs ==
    {Concat([i \in 1..Len(ts) |-> ts[i] \o B(<<" ">>)]) : ts \in SeqsUpTo(TokenTexts, MaxTokens)}

MaxNumLen == 4

\* The characters of the number grammar, 0, 1 and 9 standing for the digits.
NumberBytes == {Ord[x] : x \in {"-", "+", ".", "e", "E", "0", "1", "9"}}

\* The number literals the documentation and the tests name.
NumberExamples ==
    { B(<<"0">>), B(<<"0", ".", "5">>), B(<<"-", "3", ".", "1", "4">>),
      B(<<"1", "e", "5">>), B(<<"2", ".", "3", "E", "-", "1", "0">>),
      B(<<"0", "1">>), B(<<"0", "1", "3">>), B(<<".", "5">>), B(<<"1", ".">>),
      B(<<"1", "e">>), B(<<"-", "0", "1">>), B(<<"0", "0", ".", "5">>),
      B(<<"0", "1", "e", "2">>), B(<<"6", ".", "0", "2", "2", "E", "+", "2", "3">>) }

\* A one-element array whose element is a text over the number characters.
NumberInputs ==
    {B(<<"[">>) \o x \o B(<<"]">>) :
        x \in (SeqsUpTo(NumberBytes, MaxNumLen) \ {<<>>}) \cup NumberExamples}

\* A bare scalar at the top level.
ScalarInputs ==
    { B(<<"\"", "h", "e", "l", "l", "o", "\"">>), B(<<"4", "2">>),
      B(<<"t", "r", "u", "e">>), B(<<"f", "a", "l", "s", "e">>),
      B(<<"n", "u", "l", "l">>), B(<<" ", "-", "1", ".", "5">>) }

MaxStrItems == 2

\* Pieces of string literals: ordinary characters, escapes whole and cut short,
\* raw control characters, a quote.
StringItems ==
    { B(<<"a">>), B(<<"\\", "n">>), B(<<"\\", "\"">>), B(<<"\\", "\\">>),
      B(<<"\\", "u", "0", "0", "4", "1">>), B(<<"\\", "u", "0", "0", "e", "9">>),
      B(<<"\\", "x">>), B(<<"\\", "u", "1", "2">>), B(<<"\\">>), B(<<"\"">>),
      B(<<"TAB">>), B(<<"NUL">>) }

\* String literals with one escape each, and the ones the tests name.
StringExamples ==
    {B(<<"a", "\\", x, "a">>) : x \in {"\"", "\\", "/", "b", "f", "n", "r", "t", "0", " "}}
    \cup { B(<<"\\", "\"", "\\", "\\", "\\", "/", "\\", "b", "\\", "f", "\\", "n",
               "\\", "r", "\\", "t">>),
           B(<<"h", "e", "l", "l", "o", "\\">>),
           B(<<"\\", "u", "0", "0", "E", "9">>), B(<<"\\", "u", "A", "b", "c", "D">>),
           B(<<"\\", "u", "D", "8", "0", "0">>), B(<<"\\", "u", "1", "2", "x", "4">>),
           B(<<"\\", "u", "1", "2", "3">>), B(<<"\\", "u">>), B(<<"\\", "e_ACUTE">>),
           B(<<"\\", "u", "0", "0", "e_ACUTE", "9">>), B(<<"e_ACUTE">>),
           B(<<"a", "LF", "a">>), B(<<"US">>), B(<<" ", "DEL">>) }

StringBodies ==
    {Concat(items) : items \in SeqsUpTo(StringItems, MaxStrItems)} \cup StringExamples

\* A string literal as the first element of an array, closed or cut short.
StringInputs ==
    {B(<<"[", "\"">>) \o body \o close :
        body \in StringBodies, close \in {B(<<>>), B(<<"\"">>), B(<<"\"", "]">>)}}

Lower == {B(<<"t", "r", "u", "e">>), B(<<"f", "a", "l", "s", "e">>), B(<<"n", "u", "l", "l">>)}

RECURSIVE Casings(_)
\* The word w in every mix of upper and lower case.
Casings(w) ==
    IF w = <<>> THEN {<<>>}
    ELSE {<<h>> \o t : h \in {Head(w), Head(w) - 32}, t \in Casings(Tail(w))}

KeywordWords ==
    UNION {Casings(w) : w \in Lower}
    \cup { B(<<"t", "r">>), B(<<"t", "e", "s", "t">>), B(<<"t", "r", "u", "e", "e">>),
           B(<<"n", "u", "l">>), B(<<"t">>), B(<<"t", "A_GRAVE">>),
           B(<<"t", "r", "u", "e", "f", "a", "l", "s", "e">>) }

\* The places of a value: an array element, an object member's value.
KeywordContexts ==
    { <<B(<<"[">>), B(<<"]">>)>>,
      <<B(<<"{", "\"", "k", "e", "y", "2", "\"", ":", " ">>), B(<<"}">>)>> }

KeywordInputs == {ctx[1] \o w \o ctx[2] : ctx \in KeywordContexts, w \in KeywordWords}

\* One call, on a buffer of S.
\* Texts that end right after a complete member of an open object or array,
\* each with the closing delimiter of that innermost construct.
MemberContexts ==
    { <<B(<<"[", "1">>), B(<<"]">>)>>,
      <<B(<<"{", "\"", "a", "\"", ":", "1">>), B(<<"}">>)>>,
      <<B(<<"[", "1", ",", " ", "2">>), B(<<"]">>)>>,
      <<B(<<"[", "[", "]">>), B(<<"]">>)>>,
      <<B(<<"[", "{", "\"", "a", "\"", ":", "1">>), B(<<"}">>)>>,
      <<B(<<"{", "\"", "a", "\"", ":", "[", "t", "r", "u", "e">>), B(<<"]">>)>>,
      <<B(<<"{", "\"", "a", "\"", ":", "{", "\"", "b", "\"", ":", "2", "}">>), B(<<"}">>)>>,
      <<B(<<"{", "\"", "a", "\"", ":", "1", ",", "\"", "b", "\"", ":", "2">>), B(<<"}">>)>> }

Gaps == { B(<<>>), B(<<" ">>), B(<<"LF", "TAB">>) }

CloseTails == { B(<<>>), B(<<"]">>), B(<<"}">>), B(<<"]", "}">>) }

\* A comma after a member, then any token, then a tail.
CommaInputs ==
    { ctx[1] \o B(<<",">>) \o gap \o t \o tail :
        ctx \in MemberContexts, gap \in Gaps, t \in TokenTexts, tail \in CloseTails }

\* Texts that end where an object expects a key.
KeyContexts ==
    { B(<<"{">>), B(<<"{", "\"", "a", "\"", ":", "1", ",">>), B(<<"[", "{">>),
      B(<<"{", "\"", "a", "\"", ":", "{", " ">>) }

MemberTails ==
    { B(<<>>), B(<<"1", "}">>), B(<<"1", "}", "}">>), B(<<"}">>), B(<<":", "1", "}">>) }

\* Where a key is expected: any token, a space, any token, a tail.
MemberInputs ==
    { pre \o k \o B(<<" ">>) \o t \o tail :
        pre \in KeyContexts, k \in TokenTexts, t \in TokenTexts, tail \in MemberTails }

\* The inputs of the error position tests, and constructs cut short.
ErrorExamples ==
    { B(<<"{", "\"", "k", "e", "y", "\"", " ", "\"", "a", "\"", "}">>),
      B(<<"[", "1", ",", "2">>),
      B(<<"{", "\"", "a", "\"", ":", "1", " ", " ">>),
      B(<<"[", "1", " ", "2", "]">>),
      B(<<"{", "\"", "a", "\"", ":", "}">>),
      B(<<"[", "\"", "a">>),
      B(<<"]">>),
      B(<<"[", "]", " ", "[", "]">>),
      OpenPrefix("mixed", maxNestingDepth + 1) \o B(<<"1", "]">>) }

GrammarInputs == CommaInputs \cup MemberInputs \cup ErrorExamples

MaxScanLen == 3

\* Bytes of every kind the scanner tells apart: the end-of-input sentinel,
\* whitespace of JSON and of Unicode, token characters, and the two bytes of
\* the UTF-8 encoding of U+00E9.
ScanBytes ==
    {Ord[x] : x \in {"NUL", " ", "TAB", "FF", "NBSP", "[", "1", "\"", ",", "xC3", "xA9"}}

\* Texts of the scanner's tests, texts that reach every branch of the number
\* and keyword scanners, and texts with a two-byte character before a token.
ScanExamples ==
    { B(<<" ", "{", " ", "}", " ">>),
      B(<<" ", "TAB", "LF", "CR", " ", "{", " ", "TAB", "LF", "CR", " ", "}">>),
      B(<<"\"", "k", "e", "y", "\"", ":", "\"", "a", "\"">>),
      B(<<"t", "r", "u", "e", " ", "-", "1", ".", "5", "e", "+", "1", "0", " ", "n", "u", "l", "l">>),
      B(<<"1", "E", "5", ",", "0", ".", "5", ",", "1", "0">>),
      B(<<"\"", "xC3", "xA9", "\"", ",", "1">>),
      B(<<"[", "\"", "xC3", "xA9", "xC3", "xA9", "\"", "]">>),
      B(<<"VT", "{">>), B(<<"NEL", "1">>), B(<<"FF", "FF", "]">>),
      B(<<"[", "]", "NUL", "[", "]">>) }

ScanInputs == SeqsUpTo(ScanBytes, MaxScanLen) \cup ScanExamples

InitScanOn(S) == \E in \in S : InitScans([c \in {1} |-> in])

\* Buffers for the runs of several calls: one that touches every rule, failures
\* of the scanner and of the rules, a rejected 20th level, a NUL byte.
PairInputs ==
    CoreInputs
    \cup { B(<<"[", "[", "]", "]">>),
           B(<<"[", "]", "NUL", "x">>),
           B(<<"[", "\"", "\\", "x", "\"", "]">>),
           OpenPrefix("arrays", maxNestingDepth + 1),
           OpenPrefix("mixed", maxNestingDepth + 1) \o B(<<"1", "]">>) }

\* The buffers of interleaved calls: the long ones once, the short ones.
ConcurrentInputs == {in \in PairInputs : Len(in) <= 8 \/ Len(in) >= 20}

\* Two calls on equal buffers.
InitTwice(S) == \E in \in S : InitCalls([c \in {1, 2} |-> in])

\* Calls 1 and 2 on their own buffers, call 3 on a buffer equal to call 1's.
InitConcurrent(S) ==
    \E a \in S : \E b \in S : InitCalls([c \in {1, 2, 3} |-> IF c = 2 THEN b ELSE a])

MaxSequence == 4

\* One text for each token kind of the grammar, a number standing for the
\* scalars that are no key.
KindTexts ==
    { B(<<"{">>), B(<<"}">>), B(<<"[">>), B(<<"]">>), B(<<":">>), B(<<",">>),
      B(<<"\"", "a", "\"">>), B(<<"1">>) }

\* Longer sequences: well-formed ones, mismatched delimiters, doubled, leading
\* and missing commas, members without key or colon.
SequenceExamples ==
    { B(<<"{", "\"", "a", "\"", ":", "1", "}">>),
      B(<<"{", "\"", "a", "\"", ":", "[", "1", ",", "\"", "a", "\"", "]", ",", "\"", "a", "\"", ":", "{", "}", "}">>),
      B(<<"[", "1", ",", "[", "]", ",", "{", "\"", "a", "\"", ":", "1", "}", "]">>),
      B(<<"[", "1", ",", "1", "}">>),
      B(<<"{", "\"", "a", "\"", ":", "1", "]">>),
      B(<<"[", "1", ",", ",", "1", "]">>),
      B(<<"[", ",", "1", "]">>),
      B(<<"{", ",", "\"", "a", "\"", ":", "1", "}">>),
      B(<<"[", "1", " ", "1", "]">>),
      B(<<"{", "\"", "a", "\"", ":", "1", " ", "\"", "a", "\"", ":", "1", "}">>),
      B(<<"{", "\"", "a", "\"", ":", "1", ",", "1", ":", "1", "}">>),
      B(<<"{", "\"", "a", "\"", ",", "1", "}">>),
      B(<<"[", "\"", "a", "\"", ":", "1", "]">>),
      B(<<"[", "[", "1", "]", "]", "]">>),
      B(<<"[", "[", "1", "]">>) }

\* Sequences of token kinds, a space after each token; nestings at the limit.
SequenceInputs ==
    {Concat([i \in 1..Len(ts) |-> ts[i] \o B(<<" ">>)]) : ts \in SeqsUpTo(KindTexts, MaxSequence)}
    \cup SequenceExamples
    \cup {Nested(pat, 1, k) : pat \in Patterns,
                               k \in (maxNestingDepth - 1)..(maxNestingDepth + 1)}

\* What may stand where a value is expected: each scalar, ill-formed tokens,
\* the tokens that start no value, and the end of the input.
LookaheadTexts ==
    { B(<<"\"", "a", "\"">>), B(<<"t", "r", "u", "e">>), B(<<"f", "a", "l", "s", "e">>),
      B(<<"n", "u", "l", "l">>), B(<<"-", "1", ".", "5">>), B(<<"0", "1">>), B(<<"#">>),
      B(<<"\"", "a">>), B(<<"t", "r", "u">>), B(<<"}">>), B(<<"]">>), B(<<":">>),
      B(<<",">>), B(<<>>) }

\* The places of a value: first or later element, member value, nested.
ValueContexts ==
    { B(<<"[">>), B(<<"[", "1", ",", " ">>), B(<<"{", "\"", "k", "\"", ":">>),
      B(<<"[", "{", "\"", "k", "\"", ":", "[">>) }

ValueInputs ==
    {pre \o x \o post : pre \in ValueContexts, x \in LookaheadTexts,
                        post \in {B(<<>>), B(<<"]">>), B(<<" ", ",", "1", "]">>)}}

\* Words in every casing of the keywords, alone, between spaces, before a
\* comma, behind a digit and behind another letter.
WordInputs ==
    {pre \o w \o post : pre \in {B(<<>>), B(<<" ">>), B(<<"1">>), B(<<"x">>)},
                        w \in KeywordWords \cup {B(<<"T", "e", "s", "t">>), B(<<"e_ACUTE">>)},
                        post \in {B(<<>>), B(<<",">>)}}

\* Number literals whose integer part starts with 0, in the places of a value.
ZeroLiterals ==
    { B(<<"0">>), B(<<"-", "0">>), B(<<"0", ".", "1", "3">>), B(<<"0", "e", "1">>),
      B(<<"-", "0", ".", "1", "3">>), B(<<"-", "0", "E", "+", "1">>),
      B(<<"0", "1">>), B(<<"0", "1", "3">>), B(<<"-", "0", "1">>),
      B(<<"0", "0", ".", "5">>), B(<<"0", "1", "e", "2">>), B(<<"0", "0">>),
      B(<<"-", "0", "0", ".", "5">>), B(<<"-", "0", "9", "E", "1">>),
      B(<<"1", "0">>), B(<<"-", "1", "0", "0">>), B(<<"1", ".", "0", "1">>),
      B(<<"1", "e", "0", "1">>) }

ZeroInputs ==
    {ctx[1] \o x \o ctx[2] : ctx \in KeywordContexts \cup {<<B(<<"[", "1", ",", " ">>), B(<<" ", "]">>)>>},
                             x \in ZeroLiterals}

\* One-character tokens to put in front of a text.
FirstTokens == {B(<<"[">>), B(<<"{">>), B(<<",">>)}

\* Texts with tokens of every kind, well-formed and not.
RestTexts ==
    ScanExamples
    \cup { B(<<"t", "r", ",", "1">>), B(<<"\"", "\\", "x", "\"", "1">>),
           B(<<"0", "1", " ", "]">>), B(<<"\"", "a">>),
           B(<<"\"", "\\", "u", "0", "0", "4", "1", "\"", ":", "-", "0", ".", "5">>) }

\* Two scanners on buffers that differ in their first token only.
InitScanPairs ==
    \E a \in FirstTokens : \E b \in FirstTokens : \E rest \in RestTexts :
        InitScans([c \in {1, 2} |-> IF c = 1 THEN a \o rest ELSE b \o rest])

MaxSpaced == 3

\* Token texts that stay apart when written without whitespace between them,
\* unless a number follows a number.
SpacedTexts ==
    { B(<<"[">>), B(<<"]">>), B(<<",">>), B(<<":">>), B(<<"\"", "a", "\"">>), B(<<"1">>),
      B(<<"#">>) }

\* Longer token sequences: objects, nesting, keywords, errors late in the text.
SpacedExamples ==
    { <<B(<<"{">>), B(<<"\"", "a", "\"">>), B(<<":">>), B(<<"1">>), B(<<"}">>)>>,
      <<B(<<"[">>), B(<<"t", "r", "u", "e">>), B(<<",">>), B(<<"n", "u", "l", "l">>),
        B(<<",">>), B(<<"-", "1", ".", "5", "e", "2">>), B(<<"]">>)>>,
      <<B(<<"{">>), B(<<"\"", "a", "\"">>), B(<<":">>), B(<<"[">>), B(<<"{">>), B(<<"}">>),
        B(<<"]">>), B(<<"}">>)>>,
      <<B(<<"[">>), B(<<"1">>), B(<<",">>), B(<<"]">>)>>,
      <<B(<<"{">>), B(<<"\"", "a", "\"">>), B(<<":">>), B(<<"1">>), B(<<"}">>), B(<<"]">>)>>,
      <<B(<<"[">>), B(<<"f", "a", "l", "s", "e">>), B(<<"0", "1">>), B(<<"]">>)>>,
      <<B(<<"{">>), B(<<"1">>), B(<<":">>), B(<<"1">>), B(<<"}">>)>> }

\* The token sequences whose texts do not run into one another.
SpacedSequences ==
    {ts \in SeqsUpTo(SpacedTexts, MaxSpaced) :
        \A i \in 1..(Len(ts) - 1) : ~(ts[i] = B(<<"1">>) /\ ts[i + 1] = B(<<"1">>))}
    \cup SpacedExamples

\* Whitespace to add before the first token, between two tokens, after the last.
Paddings ==
    { <<B(<<" ">>), B(<<>>), B(<<>>)>>,
      <<B(<<>>), B(<<"TAB", "LF">>), B(<<>>)>>,
      <<B(<<>>), B(<<>>), B(<<"CR", " ">>)>>,
      <<B(<<"LF">>), B(<<" ">>), B(<<"TAB">>)>> }

\* The texts ts with `pad` added around and between them.
Padded(ts, pad) ==
    pad[1] \o Concat([i \in 1..Len(ts) |-> IF i < Len(ts) THEN ts[i] \o pad[2] ELSE ts[i]])
        \o pad[3]

\* Call 1 on a text without whitespace, call 2 on the same tokens with
\* whitespace added.
InitSpaced ==
    \E ts \in SpacedSequences : \E pad \in Paddings :
        InitCalls([c \in {1, 2} |-> IF c = 1 THEN Concat(ts) ELSE Padded(ts, pad)])

\* The tokens of { "a" : [ 1 , true ] , "b" : { } }
ValidTokens ==
    << B(<<"{">>), B(<<"\"", "a", "\"">>), B(<<":">>), B(<<"[">>), B(<<"1">>), B(<<",">>),
       B(<<"t", "r", "u", "e">>), B(<<"]">>), B(<<",">>), B(<<"\"", "b", "\"">>), B(<<":">>),
       B(<<"{">>), B(<<"}">>), B(<<"}">>) >>

\* Texts that the scanner refuses, one for each of its diagnostics' kinds.
InvalidTexts ==
    { B(<<"#">>), B(<<"t", "r">>), B(<<"T">>), B(<<"0", "1">>), B(<<"-">>), B(<<"1", ".">>),
      B(<<"1", "e">>), B(<<"\"", "\\", "x", "\"">>), B(<<"\"", "TAB", "\"">>),
      B(<<"\"", "\\", "u", "1", "\"">>) }

\* The tokens ts, a blank after each.
Blanked(ts) == Concat([i \in 1..Len(ts) |-> ts[i] \o B(<<" ">>)])

\* A valid text with a refused text put before any of its tokens, in the place
\* of any of them, or behind the last.
LexicalInputs ==
    {Blanked(SubSeq(ValidTokens, 1, i) \o <<x>> \o SubSeq(ValidTokens, i + 1, Len(ValidTokens))) :
        i \in 0..Len(ValidTokens), x \in InvalidTexts}
    \cup {Blanked(SubSeq(ValidTokens, 1, i - 1) \o <<x>> \o SubSeq(ValidTokens, i + 1, Len(ValidTokens))) :
            i \in 1..Len(ValidTokens), x \in InvalidTexts}
    \cup {Blanked(ValidTokens)}

InitOn(S) == \E in \in S : InitCalls([c \in {1} |-> in])

Init == InitOn(CoreInputs \cup TrailInputs \cup TokenInputs \cup ScalarInputs)

Spec == Init /\ [][Next]_vars

\* A call is ordinary sequential code: it takes its next step.
FairSpec == Spec /\ WF_vars(Next)

NestingSpec == InitOn(CoreInputs \cup NestedInputs \cup OverflowInputs) /\ [][Next]_vars

NumberSpec == InitOn(CoreInputs \cup NumberInputs) /\ [][Next]_vars

StringSpec == InitOn(CoreInputs \cup StringInputs) /\ [][Next]_vars

KeywordSpec == InitOn(CoreInputs \cup KeywordInputs) /\ [][Next]_vars

GrammarSpec == InitOn(CoreInputs \cup GrammarInputs) /\ [][Next]_vars

\* Texts of at most four tokens with every kind of escape, number part and
\* keyword in them.
CutTexts ==
    { B(<<"\"", "a", "\\", "u", "0", "0", "e", "9", "\\", "n", "\"">>),
      B(<<"\"", "\\", "u", "0", "0", "4", "1", "\"", ":", "\"", "\\", "\\", "\"">>),
      B(<<"-", "1", "0", ".", "5", "e", "+", "1", "2">>),
      B(<<"0", ".", "2", "5", "E", "-", "3", ",", "-", "0">>),
      B(<<"[", "1", "E", "5", " ", "t", "r", "u", "e">>),
      B(<<"f", "a", "l", "s", "e", ",", "n", "u", "l", "l">> ),
      B(<<"{", "\"", "k", "\"", ":", " ", "-", "0", ".", "1">>) }

\* Every buffer that is the beginning of one of these texts: it ends in the
\* middle of an escape, of a number or of a keyword, or between two tokens.
CutInputs == UNION {{SubSeq(text, 1, k) : k \in 0..Len(text)} : text \in CutTexts}

ScanSpec == InitScanOn(ScanInputs) /\ [][ScanNext]_vars

CutSpec == InitScanOn(CutInputs \cup ScanExamples) /\ [][ScanNext]_vars

SequentialSpec ==
    InitTwice(PairInputs \cup TrailInputs \cup TokenInputs \cup ScalarInputs)
        /\ [][SequentialNext]_vars

ConcurrentSpec == InitConcurrent(ConcurrentInputs) /\ [][ConcurrentNext]_vars

SequenceSpec == InitOn(CoreInputs \cup SequenceInputs) /\ [][Next]_vars

ValueSpec == InitOn(CoreInputs \cup TokenInputs \cup ValueInputs) /\ [][Next]_vars

WordSpec == InitScanOn(ScanExamples \cup WordInputs) /\ [][ScanNext]_vars

ZeroSpec == InitOn(CoreInputs \cup NumberInputs \cup ZeroInputs) /\ [][Next]_vars

ScanPairSpec == InitScanPairs /\ [][ScanPairNext]_vars

SpacedSpec == InitSpaced /\ [][TurnNext]_vars

LexicalSpec == InitOn(CoreInputs \cup TokenInputs \cup LexicalInputs) /\ [][Next]_vars

Done(c) == result[c] # Pending

Succeeded(c) == result[c] = Nil

Failed(c) == Done(c) /\ result[c] # Nil


HasPrefix(s, p) == Len(s) >= Len(p) /\ SubSeq(s, 1, Len(p)) = p

\* The call failed with the message `msg`.
FailedWith(c, msg) == Failed(c) /\ result[c].Message.fmt = msg

(***************************************************************************)
(* C1: ValidateJSON succeeds only if nothing but whitespace (space, tab,   *)
(* newline, carriage return) follows the top-level value; any other byte   *)
(* there makes it fail with "unexpected token after JSON".                 *)
(***************************************************************************)
C1_TrailingContentRejected ==
    \A c \in DOMAIN input :
        \A top \in TopValues :
            ( /\ Done(c)
              /\ HasPrefix(input[c], top)
              /\ \E i \in (Len(top) + 1)..Len(input[c]) :
                    input[c][i] \notin {Ord[" "], Ord["TAB"], Ord["LF"], Ord["CR"]} )
            => FailedWith(c, "unexpected token after JSON")

C2_WitnessOverflow ==
    \E c \in DOMAIN input :
        /\ FailedWith(c, "maximum nesting depth of %d exceeded")
        /\ input[c] = OpenPrefix("objects", 20) \o B(<<"x">>)


(***************************************************************************)
(* C3: every ValidateJSON call terminates: it reaches its final state      *)
(* (success or one error) after finitely many steps.                       *)
(***************************************************************************)
C3_Terminates == <>(\A c \in DOMAIN input : Done(c))

\* A call that went through whitespace, strings, numbers, a keyword and both
\* comma loops has returned.
C3_Witness ==
    \E c \in DOMAIN input : Succeeded(c) /\ parserPosition[c] >= 20


Digits == 48..57

AllDigits(x, i, j) == \A n \in i..j : x[n] \in Digits

\* x[s+1..i] is 0, or a digit 1-9 followed by digits
IntegerPart(x, s, i) ==
    /\ i >= s + 1
    /\ AllDigits(x, s + 1, i)
    /\ x[s + 1] = 48 => i = s + 1

\* x[i+1..j] is empty, or a point and one or more digits
FractionPart(x, i, j) ==
    \/ j = i
    \/ /\ j >= i + 2
       /\ x[i + 1] = 46
       /\ AllDigits(x, i + 2, j)

\* x[j+1..Len(x)] is empty, or e or E, an optional sign, one or more digits
ExponentPart(x, j) ==
    \/ j = Len(x)
    \/ /\ j + 1 <= Len(x)
       /\ x[j + 1] \in {101, 69}
       /\ LET d == IF j + 2 <= Len(x) /\ x[j + 2] \in {43, 45} THEN j + 3 ELSE j + 2
          IN  d <= Len(x) /\ AllDigits(x, d, Len(x))

NumberGrammar(x) ==
    LET s == IF Len(x) > 0 /\ x[1] = 45 THEN 1 ELSE 0
    IN  \E i \in (s + 1)..Len(x) : \E j \in i..Len(x) :
            IntegerPart(x, s, i) /\ FractionPart(x, i, j) /\ ExponentPart(x, j)

\* The buffer is [x] for a non-empty x over the characters of the grammar.
IsNumberProbe(in) ==
    /\ Len(in) >= 3
    /\ in[1] = 91
    /\ in[Len(in)] = 93
    /\ \A i \in 2..(Len(in) - 1) : in[i] \in Digits \cup {45, 43, 46, 101, 69}

C5_NumberGrammar ==
    \A c \in DOMAIN input :
        (Done(c) /\ IsNumberProbe(input[c])) =>
            (Succeeded(c) <=> NumberGrammar(SubSeq(input[c], 2, Len(input[c]) - 1)))

C5_Witness ==
    \E c \in DOMAIN input :
        /\ Succeeded(c)
        /\ input[c] = B(<<"[", "2", ".", "3", "E", "-", "1", "0", "]">>)

C5_WitnessRejected ==
    \E c \in DOMAIN input :
        /\ FailedWith(c, "expected digit after decimal point")
        /\ input[c] = B(<<"[", "1", ".", "]">>)


(***************************************************************************)
(* String literals, read off the buffer.  The current token of a call is   *)
(* the token of a string literal when it starts at a quote; the literal's  *)
(* text starts at the 1-based index Position + 2.                          *)
(***************************************************************************)
\* The last token loaded by call c starts at a quote.
StringTokenLoaded(c) ==
    /\ parserPosition[c] >= 1
    /\ tk[c].pc = "idle"
    /\ currentToken[c].Position < Len(input[c])
    /\ input[c][currentToken[c].Position + 1] = 34

\* What each of the eight escape letters stands for.
EscapeMeaning ==
    34 :> 34 @@ 92 :> 92 @@ 47 :> 47 @@ 98 :> 8 @@ 102 :> 12 @@ 110 :> 10
    @@ 114 :> 13 @@ 116 :> 9

IsHex(b) == b \in (48..57) \cup (97..102) \cup (65..70)

RECURSIVE SimpleLiteral(_, _)
\* From the 1-based index i on, the buffer holds ordinary ASCII characters and
\* single-character escapes up to a closing quote: the index of that quote,
\* and 0 if there is no such literal.
SimpleLiteral(in, i) ==
    IF i > Len(in) THEN 0
    ELSE IF in[i] = 34 THEN i
    ELSE IF in[i] = 92
    THEN IF i + 1 <= Len(in) /\ in[i + 1] \in DOMAIN EscapeMeaning
         THEN SimpleLiteral(in, i + 2)
         ELSE 0
    ELSE IF in[i] < 32 \/ in[i] > 126 THEN 0
    ELSE SimpleLiteral(in, i + 1)

RECURSIVE Unescaped(_, _)
\* The text of a simple literal with each escape replaced by its character.
Unescaped(in, i) ==
    IF in[i] = 34 THEN <<>>
    ELSE IF in[i] = 92 THEN <<EscapeMeaning[in[i + 1]]>> \o Unescaped(in, i + 2)
    ELSE <<in[i]>> \o Unescaped(in, i + 1)

(***************************************************************************)
(* C6: for a terminated string literal of ordinary characters and the      *)
(* eight single-character escapes, the STRING token's value is the text    *)
(* with each escape replaced by its character, and the token ends at the   *)
(* first unescaped quote.                                                  *)
(***************************************************************************)
C6_EscapeDecoding ==
    \A c \in DOMAIN input :
        LET from == currentToken[c].Position + 2
        IN  (StringTokenLoaded(c) /\ SimpleLiteral(input[c], from) # 0) =>
                /\ currentToken[c].Type = "STRING"
                /\ currentToken[c].Value = Str("%s", Unescaped(input[c], from))
                /\ position[c] = SimpleLiteral(input[c], from)

C6_Witness ==
    \E c \in DOMAIN input :
        /\ StringTokenLoaded(c)
        /\ currentToken[c].Type = "STRING"
        /\ currentToken[c].Value.arg = <<34, 92, 47, 8, 12, 10, 13, 9>>

\* Call c takes a step of its Tokenizer.
ScannerStep(c) == <<tk[c], position[c]>>' # <<tk[c], position[c]>>

\* In this step an INVALID token of call c is not consumed, and the call that
\* met it does not succeed.
InvalidNeverAccepted(c) ==
    currentToken[c].Type = "INVALID" =>
        /\ currentToken'[c] = currentToken[c]
        /\ result'[c] # Nil

(***************************************************************************)
(* C7: a raw character below 0x20 between the quotes of a string literal   *)
(* makes the scanner return an INVALID token with the "unescaped control   *)
(* character" diagnostic, and the input does not validate.                 *)
(***************************************************************************)
C7_ControlCharacterRejected ==
    [][ \A c \in DOMAIN input :
          /\ ( /\ tk[c].pc = "parseStringToken"
               /\ position[c] < Len(input[c])
               /\ input[c][position[c] + 1] < 32
               /\ ScannerStep(c) )
             => /\ tk'[c].pc = "idle"
                /\ currentToken'[c] =
                      Token("INVALID",
                            Str("unescaped control character (0x%02X) in string",
                                <<input[c][position[c] + 1]>>),
                            tk[c].tokenPos)
          /\ InvalidNeverAccepted(c) ]_vars

C7_Witness ==
    \E c \in DOMAIN input :
        /\ Failed(c)
        /\ result[c].Message =
              Str("unescaped control character (0x%02X) in string", <<9>>)
        /\ input[c][currentToken[c].Position + 1] = 34

(***************************************************************************)
(* C8: in a string literal a backslash followed by a character other than  *)
(* " \ / b f n r t u yields an INVALID token naming that character, and    *)
(* \u followed by fewer than four hexadecimal digits yields an INVALID     *)
(* token; no such escape gets into a STRING token.                         *)
(***************************************************************************)
\* The scanner of call c is on a backslash inside a string literal, the 1-based
\* index of the character after it being n.
OnEscape(c, n) ==
    /\ tk[c].pc = "parseStringToken"
    /\ n = position[c] + 2
    /\ n <= Len(input[c])
    /\ input[c][n - 1] = 92

FourHexFollow(in, n) == n + 4 <= Len(in) /\ \A i \in 1..4 : IsHex(in[n + i])

C8_WitnessUnicode ==
    \E c \in DOMAIN input :
        /\ FailedWith(c, "invalid hex digit in unicode escape")
        /\ input[c] = B(<<"[", "\"", "\\", "u", "1", "2", "x", "4", "\"", "]">>)

(***************************************************************************)
(* C9.  As claimed: whenever the buffer ends before an unescaped closing   *)
(* quote of a string literal is found, the scanner returns an INVALID      *)
(* token "unterminated string" at the opening quote, and validation fails. *)
(***************************************************************************)
RECURSIVE NoClosingQuote(_, _)
\* From the 1-based index i on, the buffer ends before an unescaped quote.
NoClosingQuote(in, i) ==
    IF i > Len(in) THEN TRUE
    ELSE IF in[i] = 34 THEN FALSE
    ELSE IF in[i] = 92 THEN NoClosingQuote(in, i + 2)
    ELSE NoClosingQuote(in, i + 1)

IsUnterminatedStringAt(c, pos) ==
    /\ currentToken[c] = Token("INVALID", Str("unterminated string", <<>>), pos)
    /\ ~Succeeded(c)

C9_Original ==
    \A c \in DOMAIN input :
        ( /\ StringTokenLoaded(c)
          /\ NoClosingQuote(input[c], currentToken[c].Position + 2) )
        => IsUnterminatedStringAt(c, currentToken[c].Position)

(***************************************************************************)
(* C9, amended: whenever the buffer ends before an unescaped closing quote *)
(* is found, and what lies between the opening quote and the end of the    *)
(* buffer is characters of 0x20 and above and valid escapes (the buffer    *)
(* may end right after a backslash), the scanner returns an INVALID token  *)
(* "unterminated string" at the opening quote and validation fails; every  *)
(* "unterminated string" token is positioned at a quote.                   *)
(***************************************************************************)
RECURSIVE CleanToTheEnd(_, _)
CleanToTheEnd(in, i) ==
    IF i > Len(in) THEN TRUE
    ELSE IF in[i] = 34 THEN FALSE
    ELSE IF in[i] = 92
    THEN IF i + 1 > Len(in) THEN TRUE
         ELSE IF in[i + 1] \in DOMAIN EscapeMeaning THEN CleanToTheEnd(in, i + 2)
         ELSE IF in[i + 1] = 117
         THEN FourHexFollow(in, i + 1) /\ CleanToTheEnd(in, i + 6)
         ELSE FALSE
    ELSE IF in[i] < 32 THEN FALSE
    ELSE CleanToTheEnd(in, i + 1)

C9_UnterminatedString ==
    \A c \in DOMAIN input :
        /\ ( /\ StringTokenLoaded(c)
             /\ CleanToTheEnd(input[c], currentToken[c].Position + 2) )
           => IsUnterminatedStringAt(c, currentToken[c].Position)
        /\ ( /\ parserPosition[c] >= 1
             /\ currentToken[c].Type = "INVALID"
             /\ currentToken[c].Value = Str("unterminated string", <<>>) )
           => /\ currentToken[c].Position < Len(input[c])
              /\ input[c][currentToken[c].Position + 1] = 34

\* The buffer ended right after a backslash.
C9_Witness ==
    \E c \in DOMAIN input :
        /\ FailedWith(c, "unterminated string")
        /\ result[c].Position = 1
        /\ input[c] = B(<<"[", "\"", "h", "e", "l", "l", "o", "\\">>)

(***************************************************************************)
(* C10: in a value position the exact words true, false and null are       *)
(* accepted; any other casing makes ValidateJSON fail with an error at the *)
(* offset of the word's first character whose message contains that        *)
(* character.                                                              *)
(***************************************************************************)
Contains(text, b) == \E i \in 1..Len(text) : text[i] = b

C10_KeywordCase ==
    \A c \in DOMAIN input :
        Done(c) =>
            \A ctx \in KeywordContexts : \A word \in Lower : \A w \in Casings(word) :
                input[c] = ctx[1] \o w \o ctx[2] =>
                    IF w = word
                    THEN Succeeded(c)
                    ELSE /\ Failed(c)
                         /\ result[c].Position = Len(ctx[1])
                         /\ result[c].Message.fmt = "%s"
                         /\ Contains(result[c].Message.arg, w[1])

\* {"key2": False}
C10_Witness ==
    \E c \in DOMAIN input :
        /\ Failed(c)
        /\ input[c] = B(<<"{", "\"", "k", "e", "y", "2", "\"", ":", " ",
                          "F", "a", "l", "s", "e", "}">>)
        /\ result[c] = Errorf(Str("%s", <<70>>), 9)

C10_WitnessWord ==
    \E c \in DOMAIN input :
        /\ Failed(c)
        /\ input[c] = B(<<"[", "n", "U", "L", "L", "]">>)
        /\ result[c] = Errorf(Str("%s", <<110, 85, 76, 76>>), 1)


(***************************************************************************)
(* C11: in an object and in an array, a comma whose next token is the      *)
(* matching closing delimiter makes validation fail with "trailing comma   *)
(* is not allowed" at the offset of that closing delimiter; the construct  *)
(* is never closed by it.                                                  *)
(***************************************************************************)
\* The Parser of call c has advanced over a comma of the innermost construct
\* and the token it finds closes that construct.
AtTrailingComma(c) ==
    /\ result[c] = Pending
    /\ tk[c].pc = "idle"
    /\ stack[c] # <<>>
    /\ Top(c).pc = "afterComma"
    /\ \/ Top(c).fn = "parseObject" /\ currentToken[c].Type = "RIGHT_BRACE"
       \/ Top(c).fn = "parseArray" /\ currentToken[c].Type = "RIGHT_BRACKET"

TrailingCommaError(pos) == Errorf(Str("trailing comma is not allowed", <<>>), pos)

C11_TrailingComma ==
    /\ [][ \A c \in DOMAIN input :
             (AtTrailingComma(c) /\ stack'[c] # stack[c]) =>
                 /\ Len(stack'[c]) = Len(stack[c]) - 1
                 /\ ret'[c] = TrailingCommaError(currentToken[c].Position)
                 /\ currentToken'[c] = currentToken[c] ]_vars
    /\ [](\A c \in DOMAIN input :
             Done(c) =>
                 \A ctx \in MemberContexts : \A gap \in Gaps : \A tail \in CloseTails :
                     input[c] = ctx[1] \o B(<<",">>) \o gap \o ctx[2] \o tail =>
                         result[c] = TrailingCommaError(Len(ctx[1]) + 1 + Len(gap)))

\* [{"a":1, }
C11_Witness ==
    \E c \in DOMAIN input :
        /\ input[c] = B(<<"[", "{", "\"", "a", "\"", ":", "1", ",", " ", "}">>)
        /\ result[c] = TrailingCommaError(9)

C11_WitnessArray ==
    \E c \in DOMAIN input :
        /\ input[c] = B(<<"[", "1", ",", "2", ",", "]">>)
        /\ result[c] = TrailingCommaError(5)


(***************************************************************************)
(* C12: a member is a STRING, then a COLON, then a Value.  A key token     *)
(* that is not a STRING fails with "expected string key", and a token      *)
(* after the key that is not a colon fails with "expected ':'" (in full,   *)
(* "expected ':' after key"), each at the offending token.                 *)
(***************************************************************************)
\* The Parser of call c is in the member rule at `pc` and takes a step.
MemberRuleStep(c, pc) ==
    /\ result[c] = Pending
    /\ tk[c].pc = "idle"
    /\ stack[c] # <<>>
    /\ Top(c).fn = "parseKeyValuePair"
    /\ Top(c).pc = pc
    /\ stack'[c] # stack[c]

\* The rule returns the error `message` at the lookahead token.
FailsHere(c, message) ==
    /\ Len(stack'[c]) = Len(stack[c]) - 1
    /\ ret'[c] = Errorf(Str(message, <<>>), currentToken[c].Position)

\* The rule goes on to `pc` over the lookahead token.
GoesOn(c, pc) ==
    /\ Len(stack'[c]) = Len(stack[c])
    /\ stack'[c][Len(stack[c])].pc = pc
    /\ tk'[c].pc = "NextToken"

Quoted == B(<<"\"", "a", "\"">>)

C12_MemberRule ==
    /\ [][ \A c \in DOMAIN input :
             /\ MemberRuleStep(c, "start") =>
                   IF currentToken[c].Type = "STRING"
                   THEN GoesOn(c, "afterKey")
                   ELSE FailsHere(c, "expected string key")
             /\ MemberRuleStep(c, "afterKey") =>
                   IF currentToken[c].Type = "COLON"
                   THEN GoesOn(c, "afterColon")
                   ELSE FailsHere(c, "expected ':' after key")
             /\ MemberRuleStep(c, "afterColon") =>
                   /\ Len(stack'[c]) = Len(stack[c]) + 1
                   /\ stack'[c][Len(stack'[c])].fn = "parseValue" ]_vars
    /\ [](\A c \in DOMAIN input :
             Done(c) =>
                 \A pre \in KeyContexts : \A k \in TokenTexts : \A t \in TokenTexts :
                   \A tail \in MemberTails :
                     input[c] = pre \o k \o B(<<" ">>) \o t \o tail =>
                         /\ (k # Quoted /\ k # B(<<"}">>)) =>
                               result[c] = Errorf(Str("expected string key", <<>>), Len(pre))
                         /\ (k = Quoted /\ t # B(<<":">>)) =>
                               result[c] = Errorf(Str("expected ':' after key", <<>>),
                                                  Len(pre) + Len(k) + 1))

\* {"a":1,1 : 1}
C12_Witness ==
    \E c \in DOMAIN input :
        /\ input[c] = B(<<"{", "\"", "a", "\"", ":", "1", ",", "1", " ", ":", "1", "}">>)
        /\ result[c] = Errorf(Str("expected string key", <<>>), 7)

\* [{"a" "a"}
C12_WitnessColon ==
    \E c \in DOMAIN input :
        /\ input[c] = B(<<"[", "{", "\"", "a", "\"", " ", "\"", "a", "\"", "}">>)
        /\ result[c] = Errorf(Str("expected ':' after key", <<>>), 6)


(***************************************************************************)
(* C13: every error of ValidateJSON is "<message> at position <p>" with p  *)
(* the Position of the lookahead token at the moment the rule failed: the  *)
(* token after the key for a missing colon, the closing delimiter for a    *)
(* trailing comma, the end-of-input offset for a missing closing           *)
(* delimiter; never the start of the enclosing construct.                  *)
(***************************************************************************)
\* The errors of the position tests: an input, the message, the offset.
PositionExamples ==
    { <<B(<<"{", "\"", "k", "e", "y", "\"", " ", "\"", "a", "\"", "}">>),
        "expected ':' after key", 7>>,
      <<B(<<"{", "\"", "a", "\"", ":", "1", ",", "}">>), "trailing comma is not allowed", 7>>,
      <<B(<<"[", "1", ",", "2", ",", "]">>), "trailing comma is not allowed", 5>>,
      <<B(<<"[", "1", ",", "2">>), "expected ']'", 4>>,
      <<B(<<"{", "\"", "a", "\"", ":", "1", " ", " ">>), "expected '}'", 8>>,
      <<B(<<"[", "1", " ", "2", "]">>), "expected ']'", 3>>,
      <<B(<<"{", "\"", "a", "\"", ":", "}">>), "expected value", 5>>,
      <<B(<<"[", "\"", "a">>), "unterminated string", 1>>,
      <<B(<<"]">>), "JSON must be an object or array", 0>>,
      <<B(<<"[", "]", " ", "[", "]">>), "unexpected token after JSON", 3>> }

C14_SingleFirstError ==
    /\ [][ \A c \in DOMAIN input :
             /\ ret'[c] # Nil => tk'[c].pc = "idle"
             /\ ret[c] # Nil =>
                   /\ ret'[c] = ret[c]
                   /\ position'[c] = position[c]
                   /\ currentToken'[c] = currentToken[c]
                   /\ parserPosition'[c] = parserPosition[c]
             /\ Done(c) => result'[c] = result[c] ]_vars
    /\ [](\A c \in DOMAIN input :
             /\ Done(c) => result[c] = ret[c]
             /\ ret[c] # Nil => (~Done(c) \/ Failed(c)))

\* An error that went through the rules of nineteen enclosing constructs.
C14_Witness ==
    \E c \in DOMAIN input :
        /\ input[c] = OpenPrefix("mixed", maxNestingDepth + 1) \o B(<<"1", "]">>)
        /\ Failed(c)
        /\ result[c].Message.fmt = "maximum nesting depth of %d exceeded"
        /\ result[c].Position = Len(input[c]) - 3


(***************************************************************************)
(* C15: in every reachable state of a validation call the depth counter    *)
(* satisfies 0 <= depth <= 19.                                             *)
(***************************************************************************)
C15_DepthInvariant ==
    \A c \in DOMAIN input : depth[c] >= 0 /\ depth[c] <= 19

(***************************************************************************)
(* C16: every activation of the Object rule or the Array rule, whether it  *)
(* returns success or any error, the depth-exceeded rejection included,    *)
(* leaves the depth counter at its value before the activation; the        *)
(* counter is 0 when ValidateJSON returns.                                 *)
(***************************************************************************)
IsContainerRule(fn) == fn \in {"parseObject", "parseArray"}

\* The number of Object and Array activations that enclose the top one: the
\* depth before the top activation, each of them having counted itself once.
EnclosingConstructs(c) ==
    Cardinality({i \in 1..(Len(stack[c]) - 1) : IsContainerRule(stack[c][i].fn)})

C16_DepthReleased ==
    /\ [][ \A c \in DOMAIN input :
             ( /\ stack[c] # <<>>
               /\ IsContainerRule(Top(c).fn)
               /\ Len(stack'[c]) = Len(stack[c]) - 1 )
             => depth'[c] = EnclosingConstructs(c) ]_vars
    /\ [](\A c \in DOMAIN input : Done(c) => depth[c] = 0)


\* A client has got at least one token from the scanner of call c, and the
\* scanner is not running.
TokenLoaded(c) == parserPosition[c] >= 1 /\ tk[c].pc = "idle"

\* In this step the scanner of call c returns a token.
TokenReturned(c) == parserPosition'[c] # parserPosition[c]

(***************************************************************************)
(* C17: for every input buffer, once NextToken has returned an EOF token,  *)
(* every later NextToken call on the same scanner returns an EOF token,    *)
(* and the cursor no longer changes.                                       *)
(***************************************************************************)
C17_EndOfInputAbsorbing ==
    [][ \A c \in DOMAIN input :
          (parserPosition[c] >= 1 /\ currentToken[c].Type = "EOF") =>
              /\ position'[c] = position[c]
              /\ TokenReturned(c) => currentToken'[c].Type = "EOF" ]_vars

(***************************************************************************)
(* C18: the Position fields of the successive tokens of one scanner are    *)
(* non-decreasing.                                                         *)
(***************************************************************************)
C18_PositionsMonotonic ==
    [][ \A c \in DOMAIN input :
          (parserPosition[c] >= 1 /\ TokenReturned(c)) =>
              currentToken'[c].Position >= currentToken[c].Position ]_vars

\* The fifth token of [] NUL [], found past an end-of-input token.
C18_Witness ==
    \E c \in DOMAIN input :
        /\ Top(c).fn = "Scan"
        /\ input[c] = B(<<"[", "]", "NUL", "[", "]">>)
        /\ parserPosition[c] = 5
        /\ currentToken[c] = Token("RIGHT_BRACKET", Str("%s", <<93>>), 4)


(***************************************************************************)
(* The code points of a buffer, decoded as UTF-8; a byte that starts no    *)
(* well-formed sequence is one code point, U+FFFD.                         *)
(***************************************************************************)
\* The bytes that may follow the first byte b0 of a multi-byte sequence.
SecondBytes(b0) ==
    IF b0 = 224 THEN 160..191
    ELSE IF b0 = 237 THEN 128..159
    ELSE IF b0 = 240 THEN 144..191
    ELSE IF b0 = 244 THEN 128..143
    ELSE 128..191

\* The length of the sequence that the byte b0 starts, 0 if it starts none.
SequenceLength(b0) ==
    IF b0 < 128 THEN 1
    ELSE IF b0 \in 194..223 THEN 2
    ELSE IF b0 \in 224..239 THEN 3
    ELSE IF b0 \in 240..244 THEN 4
    ELSE 0

\* The code point at the 1-based byte index i, and the bytes it takes.
DecodeRune(in, i) ==
    LET n == SequenceLength(in[i])
        wellFormed ==
            /\ n >= 2
            /\ i + n - 1 <= Len(in)
            /\ in[i + 1] \in SecondBytes(in[i])
            /\ \A j \in (i + 2)..(i + n - 1) : in[j] \in 128..191
    IN  IF n = 1 THEN [char |-> in[i], width |-> 1]
        ELSE IF ~wellFormed THEN [char |-> 65533, width |-> 1]
        ELSE IF n = 2
        THEN [char |-> (in[i] - 192) * 64 + (in[i + 1] - 128), width |-> 2]
        ELSE IF n = 3
        THEN [char |-> ((in[i] - 224) * 64 + (in[i + 1] - 128)) * 64 + (in[i + 2] - 128),
              width |-> 3]
        ELSE [char |-> (((in[i] - 240) * 64 + (in[i + 1] - 128)) * 64
                            + (in[i + 2] - 128)) * 64 + (in[i + 3] - 128),
              width |-> 4]

RECURSIVE RunesFrom(_, _)
RunesFrom(in, i) ==
    IF i > Len(in) THEN <<>>
    ELSE LET r == DecodeRune(in, i) IN <<r.char>> \o RunesFrom(in, i + r.width)

Runes(in) == RunesFrom(in, 1)

\* The characters a token of each kind starts with; 0 ends the input.
FirstCharacters(type) ==
    CASE type = "LEFT_BRACE" -> {123}
      [] type = "RIGHT_BRACE" -> {125}
      [] type = "LEFT_BRACKET" -> {91}
      [] type = "RIGHT_BRACKET" -> {93}
      [] type = "COLON" -> {58}
      [] type = "COMMA" -> {44}
      [] type = "STRING" -> {34}
      [] type = "TRUE" -> {116}
      [] type = "FALSE" -> {102}
      [] type = "NULL" -> {110}
      [] type = "NUMBER" -> {45} \cup (48..57)
      [] type = "EOF" -> {0}
      [] OTHER -> 0..1114111

(***************************************************************************)
(* C19: a token's Position is the zero-based offset, in code points, of    *)
(* the token's first character (the opening quote of a string; the input   *)
(* length for the end of input), also when multi-byte characters precede   *)
(* the token.                                                              *)
(***************************************************************************)
C19_PositionInCodePoints ==
    \A c \in DOMAIN input :
        TokenLoaded(c) =>
            LET runes == Runes(input[c])
                p == currentToken[c].Position
            IN  \/ p < Len(runes) /\ runes[p + 1] \in FirstCharacters(currentToken[c].Type)
                \/ p = Len(runes) /\ currentToken[c].Type = "EOF"


(***************************************************************************)
(* C20: between tokens the scanner skips exactly space, tab, newline and   *)
(* carriage return; any other character is not skipped and is the leading  *)
(* character of the next token.                                            *)
(***************************************************************************)
JsonWhitespace == {32, 9, 10, 13}

RECURSIVE WhitespaceRun(_, _)
\* The number of whitespace characters from the 0-based offset i on.
WhitespaceRun(in, i) ==
    IF i < Len(in) /\ in[i + 1] \in JsonWhitespace
    THEN 1 + WhitespaceRun(in, i + 1)
    ELSE 0

C20_WhitespaceSet ==
    /\ [][ \A c \in DOMAIN input :
             (tk[c].pc = "NextToken" /\ ScannerStep(c)) =>
                 IF position[c] < Len(input[c]) /\ input[c][position[c] + 1] \in JsonWhitespace
                 THEN tk'[c].pc = "NextToken" /\ position'[c] = position[c] + 1
                 ELSE tk'[c].pc # "NextToken" ]_vars
    /\ [](\A c \in DOMAIN input :
             (TokenLoaded(c) /\ parserPosition[c] = 1) =>
                 currentToken[c].Position = WhitespaceRun(input[c], 0))


CallState(c) ==
    <<position[c], tk[c], currentToken[c], parserPosition[c], depth[c], stack[c],
      ret[c], result[c]>>

C23_LeadingZeroTopLevel ==
    \A c \in DOMAIN input :
        (Done(c) /\ input[c] = B(<<"0", "1", "3">>)) =>
            FailedWith(c, "numbers cannot have leading zeros")


(***************************************************************************)
(* The reference grammar                                                   *)
(*   Top ::= Object | Array                                                *)
(*   Object ::= '{' '}' | '{' Member (',' Member)* '}'                     *)
(*   Array ::= '[' ']' | '[' Value (',' Value)* ']'                        *)
(*   Member ::= STRING ':' Value                                            *)
(*   Value ::= STRING | NUMBER | TRUE | FALSE | NULL | Object | Array      *)
(* as a condition on a sequence of token kinds: the delimiters are         *)
(* balanced, and each token may follow its predecessor in the construct    *)
(* that encloses it.                                                       *)
(***************************************************************************)
\* The token kinds of a buffer written with the texts of KindTexts and
\* whitespace: each byte gives the kind of the token it starts, or nothing if
\* it is whitespace or goes on a token.  A quote opens a string if an even
\* number of quotes stands before it.  Any other byte gives INVALID.
KindsFrom(in, from) ==
    LET byte(i) == IF i \in 1..Len(in) THEN in[i] ELSE 0
        opens(i) == byte(i) = 34 /\ Cardinality({j \in 1..(i - 1) : in[j] = 34}) % 2 = 0
        kind(i) ==
            CASE in[i] \in {32, 9, 10, 13} -> "none"
              [] in[i] = 123 -> "LEFT_BRACE"
              [] in[i] = 125 -> "RIGHT_BRACE"
              [] in[i] = 91 -> "LEFT_BRACKET"
              [] in[i] = 93 -> "RIGHT_BRACKET"
              [] in[i] = 58 -> "COLON"
              [] in[i] = 44 -> "COMMA"
              [] in[i] = 49 ->
                    IF byte(i + 1) \in (48..57) \cup {46, 69, 101} THEN "INVALID" ELSE "NUMBER"
              [] in[i] = 34 ->
                    IF opens(i)
                    THEN IF byte(i + 1) = 97 /\ byte(i + 2) = 34 THEN "STRING" ELSE "INVALID"
                    ELSE IF opens(i - 2) THEN "none" ELSE "INVALID"
              [] in[i] = 97 -> IF opens(i - 1) THEN "none" ELSE "INVALID"
              [] OTHER -> "INVALID"
        IsToken(k) == k # "none"
    IN  SelectSeq([i \in 1..(Len(in) - from + 1) |-> kind(i + from - 1)], IsToken)
            \o <<"EOF">>

\* No byte of the buffer is outside the texts of KindTexts.
NoInvalid(kinds) == \A i \in 1..Len(kinds) : kinds[i] # "INVALID"

ScalarKinds == {"STRING", "NUMBER", "TRUE", "FALSE", "NULL"}

OpenKinds == {"LEFT_BRACE", "LEFT_BRACKET"}

CloseKinds == {"RIGHT_BRACE", "RIGHT_BRACKET"}

\* The sequence of kinds, which ends with EOF, is a sentence of Top in which
\* no construct lies deeper than 19.
InGrammar(kinds) ==
    LET m == Len(kinds) - 1
        \* the depth of the construct that token i opens, closes or is an item of
        level == [i \in 1..m |->
                    Cardinality({j \in 1..i : kinds[j] \in OpenKinds})
                        - Cardinality({j \in 1..(i - 1) : kinds[j] \in CloseKinds})]
        \* the depth of the construct that token i is an item of or closes
        around == [i \in 1..m |-> IF kinds[i] \in OpenKinds THEN level[i] - 1 ELSE level[i]]
        \* the opening delimiter of that construct
        enclosing(i) ==
            CHOOSE e \in 1..(i - 1) :
                /\ kinds[e] \in OpenKinds /\ level[e] = around[i]
                /\ \A j \in (e + 1)..(i - 1) : ~(kinds[j] \in OpenKinds /\ level[j] = around[i])
        startsValue(i) == kinds[i] \in ScalarKinds \cup OpenKinds
        isKey(i, e) == kinds[i] = "STRING" /\ (i - 1 = e \/ kinds[i - 1] = "COMMA")
        endsValue(i, e, inObject) ==
            \/ kinds[i] \in CloseKinds
            \/ kinds[i] \in ScalarKinds /\ i # e /\ (inObject => kinds[i - 1] = "COLON")
        follows(i) ==
            LET e == enclosing(i)
                first == i - 1 = e
            IN  IF kinds[e] = "LEFT_BRACKET"
                THEN \/ first /\ (startsValue(i) \/ kinds[i] = "RIGHT_BRACKET")
                     \/ kinds[i - 1] = "COMMA" /\ startsValue(i)
                     \/ endsValue(i - 1, e, FALSE) /\ kinds[i] \in {"COMMA", "RIGHT_BRACKET"}
                ELSE \/ first /\ kinds[i] \in {"STRING", "RIGHT_BRACE"}
                     \/ kinds[i - 1] = "COMMA" /\ kinds[i] = "STRING"
                     \/ isKey(i - 1, e) /\ kinds[i] = "COLON"
                     \/ kinds[i - 1] = "COLON" /\ startsValue(i)
                     \/ endsValue(i - 1, e, TRUE) /\ kinds[i] \in {"COMMA", "RIGHT_BRACE"}
    IN  /\ m >= 2
        /\ kinds[1] \in OpenKinds
        /\ \A i \in 2..m : around[i] >= 1
        /\ Cardinality({j \in 1..m : kinds[j] \in OpenKinds})
              = Cardinality({j \in 1..m : kinds[j] \in CloseKinds})
        /\ \A i \in 1..m : level[i] <= 19
        /\ \A i \in 2..m : follows(i)

C24_WitnessRejected ==
    \E c \in DOMAIN input :
        /\ input[c] = B(<<"[", "1", ",", "1", "}">>)
        /\ ~InGrammar(KindsFrom(input[c], 1))
        /\ Failed(c)


(***************************************************************************)
(* The Value rule, step by step.  The Parser's position counts the tokens  *)
(* consumed: advance is its only writer.                                   *)
(***************************************************************************)
\* The activation on top of the stack is the Value rule's, at `pc`.
InValueRule(c, pc) ==
    /\ result[c] = Pending
    /\ stack[c] # <<>>
    /\ Top(c).fn = "parseValue"
    /\ Top(c).pc = pc

\* The rule returns err to its caller, having touched neither the lookahead,
\* the count of consumed tokens, the cursor nor the depth.
ValueRuleReturns(c, err) ==
    /\ stack'[c] = SubSeq(stack[c], 1, Len(stack[c]) - 1)
    /\ ret'[c] = err
    /\ depth'[c] = depth[c]
    /\ currentToken'[c] = currentToken[c]
    /\ parserPosition'[c] = parserPosition[c]
    /\ position'[c] = position[c]

\* With a scalar lookahead: one advance is started, completes by loading one
\* token, and the rule then returns nil; the depth is the same throughout.
ValueRuleScalar(c) ==
    /\ (InValueRule(c, "start") /\ tk[c].pc = "idle" /\ IsScalar(currentToken[c].Type)) =>
            /\ InValueRule(c, "returnNil")'
            /\ Len(stack'[c]) = Len(stack[c])
            /\ tk'[c].pc # "idle"
            /\ depth'[c] = depth[c]
            /\ parserPosition'[c] = parserPosition[c]
            /\ currentToken'[c] = currentToken[c]
    /\ (InValueRule(c, "returnNil") /\ tk[c].pc # "idle") =>
            /\ stack'[c] = stack[c]
            /\ depth'[c] = depth[c]
            /\ IF tk'[c].pc = "idle"
               THEN parserPosition'[c] = parserPosition[c] + 1
               ELSE parserPosition'[c] = parserPosition[c] /\ currentToken'[c] = currentToken[c]
    /\ (InValueRule(c, "returnNil") /\ tk[c].pc = "idle") => ValueRuleReturns(c, Nil)

NoValueTypes == {"RIGHT_BRACE", "RIGHT_BRACKET", "COLON", "COMMA", "EOF"}

(***************************************************************************)
(* C25: the Value rule with a STRING, TRUE, FALSE, NULL or NUMBER          *)
(* lookahead consumes exactly one token and succeeds with the depth        *)
(* unchanged; with an INVALID lookahead it consumes nothing and fails with *)
(* the diagnostic carried by that token as message; with '}', ']', ':',    *)
(* ',' or EOF as lookahead it consumes nothing and fails with "expected    *)
(* value".                                                                 *)
(***************************************************************************)
C25_ValueDispatch ==
    [][ \A c \in DOMAIN input :
          /\ ValueRuleScalar(c)
          /\ (InValueRule(c, "start") /\ tk[c].pc = "idle"
                  /\ currentToken[c].Type = "INVALID") =>
                \E pos \in 0..Len(input[c]) :
                    ValueRuleReturns(c, Errorf(currentToken[c].Value, pos))
          /\ (InValueRule(c, "start") /\ tk[c].pc = "idle"
                  /\ currentToken[c].Type \in NoValueTypes) =>
                \E pos \in 0..Len(input[c]) :
                    ValueRuleReturns(c, Errorf(Str("expected value", <<>>), pos)) ]_vars

\* The rule is about to return nil in [1, null ,1] with null consumed: five
\* tokens have been loaded and the lookahead is the comma behind it.
C25_Witness ==
    \E c \in DOMAIN input :
        /\ input[c] = B(<<"[", "1", ",", " ", "n", "u", "l", "l", " ", ",", "1", "]">>)
        /\ InValueRule(c, "returnNil")
        /\ tk[c].pc = "idle"
        /\ parserPosition[c] = 5
        /\ currentToken[c] = Token("COMMA", Str("%s", <<44>>), 9)
        /\ depth[c] = 1

C25_WitnessInvalid ==
    \E c \in DOMAIN input :
        /\ input[c] = B(<<"[", "1", ",", " ", "0", "1", "]">>)
        /\ FailedWith(c, "numbers cannot have leading zeros")

C25_WitnessNoValue ==
    \E c \in DOMAIN input :
        /\ input[c] = B(<<"{", "\"", "k", "\"", ":", ":", "]">>)
        /\ FailedWith(c, "expected value")


(***************************************************************************)
(* Words.  The scanner reads bytes, so a letter is a byte that             *)
(* unicode.IsLetter accepts as a character of Latin-1.                     *)
(***************************************************************************)
RECURSIVE LetterRun(_, _)
\* The maximal run of letters of `in` from the 0-based index i on.
LetterRun(in, i) ==
    IF i < Len(in) /\ IsLetter(in[i + 1]) THEN <<in[i + 1]>> \o LetterRun(in, i + 1)
    ELSE <<>>

\* A word starts at i: a letter with no letter before it.
WordStartsAt(in, i) ==
    /\ i < Len(in)
    /\ IsLetter(in[i + 1])
    /\ i > 0 => ~IsLetter(in[i])

\* The text of a word as the scanner builds it, string(rune(byte)) for each byte.
AsRunes(w) == Concat([i \in 1..Len(w) |-> Utf8(w[i])])

Keywords ==
    B(<<"t", "r", "u", "e">>) :> "TRUE" @@ B(<<"f", "a", "l", "s", "e">>) :> "FALSE"
    @@ B(<<"n", "u", "l", "l">>) :> "NULL"

\* The token loaded in this step covers the word w and nothing else.
WholeWordToken(c, w) ==
    /\ position'[c] = currentToken'[c].Position + Len(w)
    /\ IF w \in DOMAIN Keywords
       THEN currentToken'[c].Type = Keywords[w] /\ currentToken'[c].Value = Str("%s", w)
       ELSE currentToken'[c].Type = "INVALID"

C26_WitnessKeyword ==
    \E c \in DOMAIN input :
        /\ input[c] = B(<<"f", "a", "l", "s", "e", ",">>)
        /\ TokenLoaded(c)
        /\ currentToken[c] = Token("FALSE", Str("%s", B(<<"f", "a", "l", "s", "e">>)), 0)
        /\ position[c] = 5

C26_WitnessCapital ==
    \E c \in DOMAIN input :
        /\ input[c] = B(<<"T", "r", "u", "e">>)
        /\ TokenLoaded(c)
        /\ currentToken[c] = Token("INVALID", Str("%s", B(<<"T">>)), 0)
        /\ position[c] = 1


(***************************************************************************)
(* C27: the value of every NUMBER token is exactly the substring of the    *)
(* input from the token's position to the cursor after the call (sign,     *)
(* digits, '.', exponent marker, exponent sign, verbatim and in order),    *)
(* and the character following the literal is not consumed: the substring  *)
(* ends with the literal's last digit.                                     *)
(***************************************************************************)
C27_NumberVerbatim ==
    [][ \A c \in DOMAIN input :
          (TokenReturned(c) /\ currentToken'[c].Type = "NUMBER") =>
              LET from == currentToken'[c].Position
                  to == position'[c]
              IN  /\ from < to
                  /\ to <= Len(input[c])
                  /\ currentToken'[c].Value = Str("%s", SubSeq(input[c], from + 1, to))
                  /\ IsDigit(input[c][to])
                  /\ \A i \in (from + 1)..to :
                        input[c][i] \in (48..57) \cup {Ord["-"], Ord["+"], Ord["."],
                                                        Ord["e"], Ord["E"]} ]_vars

\* [2.3E-10] with the number loaded and the cursor on the bracket behind it.
C27_Witness ==
    \E c \in DOMAIN input :
        /\ input[c] = B(<<"[", "2", ".", "3", "E", "-", "1", "0", "]">>)
        /\ TokenLoaded(c)
        /\ currentToken[c] =
              Token("NUMBER", Str("%s", B(<<"2", ".", "3", "E", "-", "1", "0">>)), 1)
        /\ position[c] = 8
        /\ input[c][position[c] + 1] = Ord["]"]


(***************************************************************************)
(* Number literals by their first characters.                              *)
(***************************************************************************)
\* The byte of `in` at the 0-based index i, or 0 behind the end.
ByteOr0(in, i) == IF i < Len(in) THEN in[i + 1] ELSE 0

\* The 0-based index of the first digit of a literal at p: behind its minus sign.
FirstDigitAt(in, p) == IF ByteOr0(in, p) = Ord["-"] THEN p + 1 ELSE p

\* The literal at p has an integer part that starts with 0 and goes on with a
\* digit.
HasLeadingZero(in, p) ==
    /\ ByteOr0(in, FirstDigitAt(in, p)) = Ord["0"]
    /\ IsDigit(ByteOr0(in, FirstDigitAt(in, p) + 1))

\* The literal at p has the integer part 0, with no digit behind it.
HasZeroInteger(in, p) ==
    /\ ByteOr0(in, FirstDigitAt(in, p)) = Ord["0"]
    /\ ~IsDigit(ByteOr0(in, FirstDigitAt(in, p) + 1))

AcceptedZeros ==
    { B(<<"0">>), B(<<"-", "0">>), B(<<"0", ".", "1", "3">>), B(<<"0", "e", "1">>) }

(***************************************************************************)
(* C28: any number literal whose integer part starts with 0 immediately    *)
(* followed by another digit, with or without a leading minus and whether  *)
(* or not a fraction or exponent follows (01, 013, -01, 00.5, 01e2),       *)
(* yields an INVALID token with the diagnostic "numbers cannot have        *)
(* leading zeros", while 0, -0, 0.13 and 0e1 are accepted as numbers: a    *)
(* literal with the integer part 0 alone never gets that diagnostic.       *)
(***************************************************************************)
C28_LeadingZeros ==
    [][ \A c \in DOMAIN input :
          TokenReturned(c) =>
              LET token == currentToken'[c]
                  p == token.Position
              IN  /\ HasLeadingZero(input[c], p) =>
                        /\ token.Type = "INVALID"
                        /\ token.Value = Str("numbers cannot have leading zeros", <<>>)
                  /\ HasZeroInteger(input[c], p) =>
                        token.Value # Str("numbers cannot have leading zeros", <<>>)
                  /\ \A z \in AcceptedZeros :
                        (HasPrefix(SubSeq(input[c], p + 1, Len(input[c])), z)
                             /\ ByteOr0(input[c], p + Len(z)) \in {Ord["]"], Ord["}"], Ord[" "]}) =>
                            token = Token("NUMBER", Str("%s", z), p) ]_vars

\* [-01]: the literal behind the minus sign is refused for its leading zero.
C28_Witness ==
    \E c \in DOMAIN input :
        /\ input[c] = B(<<"[", "-", "0", "1", "]">>)
        /\ TokenLoaded(c)
        /\ currentToken[c] =
              Token("INVALID", Str("numbers cannot have leading zeros", <<>>), 1)
        /\ FailedWith(c, "numbers cannot have leading zeros")

\* [0.13] is valid.
C28_WitnessAccepted ==
    \E c \in DOMAIN input :
        /\ input[c] = B(<<"[", "0", ".", "1", "3", "]">>)
        /\ Succeeded(c)


(***************************************************************************)
(* Unicode escapes.                                                        *)
(***************************************************************************)
\* The value of a hexadecimal digit, either case.
DigitValue ==
    [b \in 48..57 |-> b - 48] @@ [b \in 65..70 |-> b - 55] @@ [b \in 97..102 |-> b - 87]

\* The 16-bit value of the four digits behind the 'u' at the 1-based index n.
Hex16(in, n) ==
    DigitValue[in[n + 1]] * 4096 + DigitValue[in[n + 2]] * 256
        + DigitValue[in[n + 3]] * 16 + DigitValue[in[n + 4]]

(***************************************************************************)
(* C29: inside a string, \u followed by four hexadecimal digits (upper or  *)
(* lower case alike) appends exactly one character whose code point is     *)
(* the 16-bit value of those digits, consumes exactly those six            *)
(* characters, and resumes scanning at the character right after the       *)
(* fourth digit.                                                           *)
(***************************************************************************)
C29_UnicodeEscape ==
    [][ \A c \in DOMAIN input : \A n \in 1..Len(input[c]) :
          (OnEscape(c, n) /\ ScannerStep(c) /\ input[c][n] = 117
                /\ FourHexFollow(input[c], n)) =>
              /\ tk'[c].pc = "parseStringToken"
              /\ position'[c] = position[c] + 6
              /\ Runes(tk'[c].acc) = Runes(tk[c].acc) \o <<Hex16(input[c], n)>> ]_vars


(***************************************************************************)
(* The scanner and what lies behind its cursor.  Two scanners whose        *)
(* buffers differ only in a first token that both have passed can be told  *)
(* apart only by a read behind the cursor.                                 *)
(***************************************************************************)
\* Scanners that have returned equally many tokens, more than one, from
\* buffers that are equal behind the first byte, hold the same token at the
\* same cursor.
BlindToThePast ==
    \A c \in DOMAIN input : \A d \in DOMAIN input :
        (/\ tk[c].pc = "idle" /\ tk[d].pc = "idle"
         /\ parserPosition[c] = parserPosition[d]
         /\ parserPosition[c] >= 2
         /\ input[c] # <<>> /\ input[d] # <<>>
         /\ Tail(input[c]) = Tail(input[d])) =>
            /\ currentToken[c] = currentToken[d]
            /\ position[c] = position[d]

(***************************************************************************)
(* C30: the scanner's cursor never decreases and the scanner never reads   *)
(* the buffer below the cursor: every step of NextToken, of whitespace     *)
(* skipping and of string, keyword and number decoding leaves the cursor   *)
(* equal or larger, a token starts where the cursor stood when its first   *)
(* character was read, what is scanned does not depend on what the cursor  *)
(* has passed, and the input buffer is never modified.                     *)
(***************************************************************************)
C30_CursorOnlyAdvances ==
    /\ [][ /\ input' = input
           /\ \A c \in DOMAIN input :
                 /\ position'[c] >= position[c]
                 /\ position'[c] <= Len(input[c])
                 /\ (tk[c].pc = "NextToken" /\ tk'[c].pc \notin {"NextToken", "idle"}) =>
                        tk'[c].tokenPos = position[c]
                 /\ (tk[c].pc = "NextToken" /\ TokenReturned(c)) =>
                        currentToken'[c].Position = position[c] ]_vars
    /\ []BlindToThePast

\* Behind different first tokens, both scanners have scanned "key" and the
\* colon alike.
C30_Witness ==
    /\ input[1] = B(<<"[", "\"", "k", "e", "y", "\"", ":", "\"", "a", "\"">>)
    /\ input[2] = B(<<"{", "\"", "k", "e", "y", "\"", ":", "\"", "a", "\"">>)
    /\ tk[1].pc = "idle" /\ tk[2].pc = "idle"
    /\ parserPosition[1] = 3 /\ parserPosition[2] = 3
    /\ currentToken[1] = Token("COLON", Str("%s", <<58>>), 6)
    /\ currentToken[2] = currentToken[1]
    /\ position[1] = 7 /\ position[2] = 7


(***************************************************************************)
(* C31: for every terminated string literal without backslash and without  *)
(* control character, the STRING token's value is exactly the text between *)
(* the quotes, also when that text holds multi-byte characters.            *)
(***************************************************************************)
C31_PlainStringVerbatim ==
    [][ \A c \in DOMAIN input :
          (TokenReturned(c) /\ currentToken'[c].Type = "STRING") =>
              LET text == SubSeq(input[c], currentToken'[c].Position + 2, position'[c] - 1)
              IN  (\A i \in 1..Len(text) : text[i] # 92 /\ text[i] >= 32) =>
                      currentToken'[c].Value = Str("%s", text) ]_vars


(***************************************************************************)
(* C32: adding space, tab, newline or carriage return before the first     *)
(* token, after the last token or between two adjacent tokens does not     *)
(* change the sequence of token kinds the scanner produces, and so does    *)
(* not change whether ValidateJSON succeeds; only positions shift.  Call 1 *)
(* runs on the text, call 2 on the text with whitespace added.             *)
(***************************************************************************)
C32_WhitespaceInvariance ==
    /\ (tk[1].pc = "idle" /\ tk[2].pc = "idle" /\ parserPosition[1] = parserPosition[2]) =>
            /\ currentToken[1].Type = currentToken[2].Type
            /\ currentToken[1].Position <= currentToken[2].Position
    /\ (Done(1) /\ Done(2)) =>
            /\ parserPosition[1] = parserPosition[2]
            /\ Succeeded(1) <=> Succeeded(2)

\* {"a":[{}]} and the same tokens on several lines: both validate, and the
\* end of input is found further to the right.
C32_Witness ==
    /\ input[1] = B(<<"{", "\"", "a", "\"", ":", "[", "{", "}", "]", "}">>)
    /\ input[2] # input[1]
    /\ Succeeded(1) /\ Succeeded(2)
    /\ currentToken[1].Type = "EOF"
    /\ currentToken[2].Position > currentToken[1].Position


\* The characters that start a token NextToken knows.
LeadingCharacters ==
    {123, 125, 91, 93, 58, 44, 34, 116, 102, 110, 45} \cup (48..57)

(***************************************************************************)
(* C33: when the first non-whitespace character is none of                 *)
(* { } [ ] : , " t f n - 0-9, NextToken returns an INVALID token whose     *)
(* value is exactly that one character and whose position is that          *)
(* character's offset, and it consumes exactly that one character.         *)
(***************************************************************************)
C33_UnrecognizedCharacter ==
    [][ \A c \in DOMAIN input :
          (/\ tk[c].pc = "NextToken"
           /\ position[c] < Len(input[c])
           /\ input[c][position[c] + 1] \notin JsonWhitespace \cup LeadingCharacters
           /\ ScannerStep(c)) =>
              LET r == DecodeRune(input[c], position[c] + 1)
                  character == SubSeq(input[c], position[c] + 1, position[c] + r.width)
              IN  /\ tk'[c].pc = "idle"
                  /\ currentToken'[c] = Token("INVALID", Str("%s", character), position[c])
                  /\ position'[c] = position[c] + r.width ]_vars


(***************************************************************************)
(* C34: a lexical error is never accepted.  If the scanner returns an      *)
(* INVALID token at any point of a validation call, that call fails; no    *)
(* grammar rule consumes an INVALID token, in whatever place (key, colon,  *)
(* comma, value, closing delimiter, after the top-level value) it stands.  *)
(***************************************************************************)
C34_LexicalErrorNeverAccepted ==
    /\ [][ \A c \in DOMAIN input :
             (parserPosition[c] >= 1 /\ currentToken[c].Type = "INVALID") =>
                 /\ currentToken'[c] = currentToken[c]
                 /\ parserPosition'[c] = parserPosition[c]
                 /\ tk'[c].pc = "idle"
                 /\ result'[c] # Nil ]_vars
    /\ [](\A c \in DOMAIN input :
             (Done(c) /\ parserPosition[c] >= 1 /\ currentToken[c].Type = "INVALID") =>
                 Failed(c))

\* A refused character behind the complete top-level value: the call has failed
\* with it as lookahead.
C34_Witness ==
    \E c \in DOMAIN input :
        /\ input[c] = Blanked(ValidTokens \o <<B(<<"#">>)>>)
        /\ currentToken[c].Type = "INVALID"
        /\ FailedWith(c, "unexpected token after JSON")


(***************************************************************************)
(* C35: NextToken returns an EOF token only when the cursor has reached    *)
(* the end of the buffer, every remaining byte having been whitespace; a   *)
(* byte inside the buffer, whatever its value (a NUL byte included), is    *)
(* never reported as the end of the input.                                 *)
(***************************************************************************)
C35_EndOnlyAtTheEnd ==
    [][ \A c \in DOMAIN input :
          (TokenReturned(c) /\ currentToken'[c].Type = "EOF") =>
              /\ currentToken'[c].Position = Len(input[c])
              /\ position'[c] = Len(input[c]) ]_vars


(***************************************************************************)
(* C36: the cursor stays within the buffer, 0 <= cursor <= len(input), and *)
(* every read the scanner makes (a single byte, the four bytes behind a    *)
(* \u) is at an index below len(input), also on a buffer that ends in the  *)
(* middle of an escape, of a number or of a keyword.                       *)
(***************************************************************************)
\* The 0-based indices of the buffer that the scanner's next step reads, each
\* behind the test the source makes before it.
Reads(c) ==
    LET pos == position[c]
        at(i) == IF AtEnd(c, i) THEN {} ELSE {i}
        byte(i) == IF AtEnd(c, i) THEN -1 ELSE ByteAt(c, i)
    IN  CASE tk[c].pc = "idle" -> {}
          [] tk[c].pc = "parseStringToken" ->
                at(pos)
                \cup (IF byte(pos) = Ord["\\"] THEN at(pos + 1) ELSE {})
                \cup (IF byte(pos) = Ord["\\"] /\ byte(pos + 1) = Ord["u"]
                         /\ ~(pos + 2 + 3 >= Len(input[c]))
                      THEN (pos + 2)..(pos + 2 + 3) ELSE {})
          [] tk[c].pc = "parseNumberToken" ->
                IF tk[c].firstChar = Ord["-"]
                THEN at(pos) \cup (IF byte(pos) = Ord["0"] THEN at(pos + 1) ELSE {})
                ELSE IF tk[c].firstChar = Ord["0"] THEN at(pos) ELSE {}
          [] tk[c].pc = "numberFraction" ->
                at(pos) \cup (IF byte(pos) = Ord["."] THEN at(pos + 1) ELSE {})
          [] tk[c].pc = "numberExponent" ->
                at(pos)
                \cup (IF IsExponentMarker(byte(pos))
                      THEN at(pos + 1)
                           \cup (IF IsSign(byte(pos + 1)) THEN at(pos + 2) ELSE {})
                      ELSE {})
          [] OTHER -> at(pos)

C36_CursorWithinBounds ==
    \A c \in DOMAIN input :
        /\ 0 <= position[c]
        /\ position[c] <= Len(input[c])
        /\ Reads(c) \subseteq 0..(Len(input[c]) - 1)

\* A buffer that ends behind the second hexadecimal digit of a \u: the scanner
\* stands on the backslash with the cursor inside the buffer, and reads the
\* backslash and the u, not the four bytes.
C36_Witness ==
    \E c \in DOMAIN input :
        /\ input[c] = B(<<"\"", "a", "\\", "u", "0", "0">>)
        /\ tk[c].pc = "parseStringToken"
        /\ position[c] = 2
        /\ Reads(c) = {2, 3}


(***************************************************************************)
(* C37: every NextToken call that returns a token other than EOF leaves    *)
(* the cursor strictly greater than it was before the call, so that a      *)
(* buffer of n bytes yields at most n tokens other than EOF before EOF.    *)
(***************************************************************************)
\* Within a call, a lower bound of the cursor that is no less than the cursor
\* before the call: the cursor itself while whitespace is skipped, then the
\* place of the token's first character.
CursorOfCall(c) == IF tk[c].pc = "NextToken" THEN position[c] ELSE tk[c].tokenPos

C37_ScannerProgress ==
    /\ [][ \A c \in DOMAIN input :
             /\ position'[c] >= position[c]
             /\ (tk[c].pc = "NextToken" /\ tk'[c].pc \notin {"NextToken", "idle"}) =>
                    tk'[c].tokenPos = position[c]
             /\ (TokenReturned(c) /\ currentToken'[c].Type # "EOF") =>
                    /\ position'[c] > CursorOfCall(c)
                    /\ position'[c] > currentToken'[c].Position ]_vars
    /\ [](\A c \in DOMAIN input :
             (tk[c].pc = "idle" /\ parserPosition[c] >= 1
                 /\ currentToken[c].Type # "EOF") =>
                     /\ parserPosition[c] <= position[c]
                     /\ parserPosition[c] <= Len(input[c]))

\* Three bytes, three tokens: each call has moved the cursor by one.
C37_Witness ==
    \E c \in DOMAIN input :
        /\ input[c] = B(<<"[", ",", "[">>)
        /\ tk[c].pc = "idle"
        /\ parserPosition[c] = 3
        /\ position[c] = 3
        /\ currentToken[c] = Token("LEFT_BRACKET", Str("%s", <<91>>), 2)


(***************************************************************************)
(* C38: at every point of a validation call the depth counter equals the   *)
(* number of Object and Array activations in progress, so that never more  *)
(* than maxNestingDepth + 1 of them are active at once (the one more being *)
(* the activation that is rejected), however deep the input nests.         *)
(***************************************************************************)
\* The Object and Array activations on the call stack.
ActiveConstructs(c) == {i \in 1..Len(stack[c]) : IsContainerRule(stack[c][i].fn)}

\* Those of them that have passed their p.depth++.
CountedConstructs(c) == {i \in ActiveConstructs(c) : stack[c][i].pc # "start"}

C38_DepthCountsActivations ==
    \A c \in DOMAIN input :
        /\ depth[c] = Cardinality(CountedConstructs(c))
        /\ Cardinality(ActiveConstructs(c)) <= maxNestingDepth + 1

====
